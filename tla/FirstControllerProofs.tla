----------------------- MODULE FirstControllerProofs ------------------------
(***************************************************************************)
(* What is true of the first version of the controller for any number of   *)
(* gyroscopes, of pairs and engines created, for any flight and any        *)
(* interleaving with the simulator.                                        *)
(***************************************************************************)
EXTENDS FirstController, TLAPS

-----------------------------------------------------------------------------
(* The names of the threads.                                               *)

Singles == {RL, SE, LC, MA, GU, EX, MAIN}

\* No two threads have the same name.
LEMMA Names ==
  /\ Threads = SignalGyros \cup GyroThreads \cup EngineThreads \cup Singles
  /\ \A i \in Gyros, k \in 1..Lives : SG(i, k) \in SignalGyros /\ GT(i, k) \in GyroThreads
  /\ \A k \in 1..Engines : PE(k) \in EngineThreads
  /\ \A t \in SignalGyros : \E i \in Gyros, k \in 1..Lives : t = SG(i, k)
  /\ \A t \in GyroThreads : \E i \in Gyros, k \in 1..Lives : t = GT(i, k)
  /\ \A t \in EngineThreads : \E k \in 1..Engines : t = PE(k)
<1>1. Threads = SignalGyros \cup GyroThreads \cup EngineThreads \cup Singles
  BY DEF Threads, Singles
<1>2. \A i \in Gyros, k \in 1..Lives : SG(i, k) \in SignalGyros
  <2> TAKE i \in Gyros, k \in 1..Lives
  <2> DEFINE p == <<i, k>>
  <2>1. p \in Pairs /\ p[1] = i /\ p[2] = k
    BY DEF Pairs
  <2> QED
    BY <2>1 DEF SignalGyros
<1>3. \A i \in Gyros, k \in 1..Lives : GT(i, k) \in GyroThreads
  <2> TAKE i \in Gyros, k \in 1..Lives
  <2> DEFINE p == <<i, k>>
  <2>1. p \in Pairs /\ p[1] = i /\ p[2] = k
    BY DEF Pairs
  <2> QED
    BY <2>1 DEF GyroThreads
<1>4. \A t \in SignalGyros : \E i \in Gyros, k \in 1..Lives : t = SG(i, k)
  BY DEF SignalGyros, Pairs
<1>5. \A t \in GyroThreads : \E i \in Gyros, k \in 1..Lives : t = GT(i, k)
  BY DEF GyroThreads, Pairs
<1> QED
  BY <1>1, <1>2, <1>3, <1>4, <1>5 DEF EngineThreads

LEMMA Distinct ==
  /\ \A i, j, k, l : SG(i, k) = SG(j, l) => i = j /\ k = l
  /\ \A i, j, k, l : GT(i, k) = GT(j, l) => i = j /\ k = l
  /\ \A j, k : PE(j) = PE(k) => j = k
  /\ \A i, j, k, l : SG(i, k) # GT(j, l)
  /\ \A i, k, j : SG(i, k) # PE(j) /\ GT(i, k) # PE(j)
  /\ \A i, k : SG(i, k) \notin Singles /\ GT(i, k) \notin Singles
  /\ \A k : PE(k) \notin Singles
<1>1. \A i, j, k, l : SG(i, k) = SG(j, l) => i = j /\ k = l
  BY DEF SG
<1>2. \A i, j, k, l : GT(i, k) = GT(j, l) => i = j /\ k = l
  BY DEF GT
<1>3. \A j, k : PE(j) = PE(k) => j = k
  BY DEF PE
<1>4. \A i, j, k, l : SG(i, k) # GT(j, l)
  BY DEF SG, GT
<1>5. \A i, k, j : SG(i, k) # PE(j) /\ GT(i, k) # PE(j)
  BY DEF SG, GT, PE
<1>6. \A i, k : SG(i, k) \notin Singles /\ GT(i, k) \notin Singles
  BY DEF SG, GT, Singles, RL, SE, LC, MA, GU, EX, MAIN
<1>7. \A k : PE(k) \notin Singles
  BY DEF PE, Singles, RL, SE, LC, MA, GU, EX, MAIN
<1> QED
  BY <1>1, <1>2, <1>3, <1>4, <1>5, <1>6, <1>7

LEMMA SinglesDistinct ==
  /\ RL # SE /\ RL # LC /\ RL # MA /\ RL # GU /\ RL # EX /\ RL # MAIN
  /\ SE # LC /\ SE # MA /\ SE # GU /\ SE # EX /\ SE # MAIN
  /\ LC # MA /\ LC # GU /\ LC # EX /\ LC # MAIN
  /\ MA # GU /\ MA # EX /\ MA # MAIN
  /\ GU # EX /\ GU # MAIN
  /\ EX # MAIN
  BY DEF RL, SE, LC, MA, GU, EX, MAIN

\* What the proofs below use of the names.
LEMMA Classes ==
  /\ Singles \subseteq Threads /\ SignalGyros \subseteq Threads
  /\ GyroThreads \subseteq Threads /\ EngineThreads \subseteq Threads
  /\ SignalGyros \cap GyroThreads = {} /\ SignalGyros \cap EngineThreads = {}
  /\ GyroThreads \cap EngineThreads = {}
  /\ Singles \cap (SignalGyros \cup GyroThreads \cup EngineThreads) = {}
  BY Names, Distinct

LEMMA NobodyIsNoThread == Nobody \notin Threads
<1>1. Nobody \notin Singles
  BY DEF Nobody, Singles, RL, SE, LC, MA, GU, EX, MAIN
<1>2. /\ \A i, k : Nobody # SG(i, k) /\ Nobody # GT(i, k)
      /\ \A k : Nobody # PE(k)
  BY DEF Nobody, SG, GT, PE
<1> QED
  BY <1>1, <1>2, Names

-----------------------------------------------------------------------------
(* What each operator of the model does to the threads.                    *)

\* pc, the arrays, the semaphores and the flags have their types, and there is
\* a place for the engine that sig_handler_manual is about to create.
ControlType ==
  /\ pc \in [Threads -> Locations]
  /\ cancelled \subseteq Threads /\ parked \subseteq EngineThreads
  /\ pair \in [Gyros -> 1..Lives] /\ engine \in 1..Engines /\ dud \subseteq GyroThreads
  /\ sem_gs \in [Gyros -> EngineThreads \cup {Nobody}] /\ sem_gas \in Threads \cup {Nobody}
  /\ is_on \in BOOLEAN /\ princp_engine \in 0..1 /\ manual_explote \in 0..1
  /\ state_gyros \in [Gyros -> 0..1]
  /\ pc[MA] \in {"engine", "engine and thrusters"} => engine < Engines

\* The meters and gallons stay in their bounds: the descent is not started
\* again once the rocket has touched the ground.
DataType ==
  /\ distance \in -1..CEILING /\ gasoline \in Int /\ gasoline >= -1
  /\ gyros \in [Gyros -> Int] /\ alarma \in Int
  /\ loaded \in Int /\ loaded >= -1
  /\ descender \in {"sleep", "sink", "burn", "ended"}
  /\ descender = "sleep" => distance >= 0
  /\ read \in Int /\ (descender = "sink" => read \in 0..CEILING)
  /\ climb \in -1..TOP /\ (pc[GU] = "climb" => climb < TOP)

LEMMA LoopFact == Loop \in {"top", "dead"}
  BY DEF Loop

LEMMA LocationNames ==
  /\ "top" \in Locations /\ "pause" \in Locations /\ "asleep" \in Locations
  /\ "dead" \in Locations /\ "exited" \in Locations /\ "kill" \in Locations
  /\ "gas" \in Locations /\ "burn" \in Locations /\ "gs" \in Locations
  /\ "store" \in Locations /\ "post" \in Locations /\ "climb" \in Locations
  /\ "landed" \in Locations /\ "stop" \in Locations /\ "abort" \in Locations
  /\ "create" \in Locations /\ "explode" \in Locations
  /\ "stop and thrusters" \in Locations /\ "thrusters" \in Locations
  /\ "engine" \in Locations /\ "engine and thrusters" \in Locations /\ "seen" \in Locations
  /\ Loop \in Locations
  BY LoopFact DEF Locations

\* The threads pthread_cancel is called for.
LEMMA Targets ==
  ASSUME ControlType
  PROVE  /\ CurrentPairs \subseteq SignalGyros \cup GyroThreads
         /\ terminate_event_1 = CurrentPairs
         /\ terminate_event_3 = {GU, RL}
<1>1. \A i \in Gyros : SG(i, pair[i]) \in SignalGyros /\ GT(i, pair[i]) \in GyroThreads
  BY Names DEF ControlType
<1> QED
  BY <1>1 DEF CurrentPairs, terminate_event_1, terminate_event_3

LEMMA Bits == 0 \in 0..1 /\ 1 \in 0..1
  OBVIOUS

LEMMA EnginesNat == Engines \in Nat
  BY BoundsAssumption

LEMMA PairNames ==
  ASSUME ControlType, NEW i \in Gyros
  PROVE  SG(i, pair[i]) \in SignalGyros /\ GT(i, pair[i]) \in GyroThreads
  BY Names DEF ControlType

LEMMA CancelFacts ==
  ASSUME ControlType, NEW T \in SUBSET Threads, NEW u \in Threads, NEW l \in Locations,
         Cancel(T, u, l)
  PROVE  /\ pc' \in [Threads -> Locations]
         /\ pc'[u] = l
         /\ \A t \in Threads \ (T \cup {u}) : pc'[t] = pc[t]
         /\ \A t \in T \ {u} : pc'[t] = "dead" \/ (pc'[t] = pc[t] /\ t \in cancelled')
         /\ \A t \in T \ {u} : Cancellable(t) => pc'[t] = "dead"
         /\ cancelled \subseteq cancelled' /\ cancelled' \subseteq cancelled \cup T
<1>1. pc' \in [Threads -> Locations]
  BY DEF ControlType, Cancel, Locations
<1>2. \A t \in T : pc[t] # "dead" /\ ~Cancellable(t) => t \in cancelled'
  BY DEF Cancel
<1> QED
  BY <1>1, <1>2 DEF Cancel

\* The pairs create_signals_gyros makes take the place of dead ones.
NewPairs == {SG(i, pair'[i]) : i \in Gyros} \cup {GT(i, pair'[i]) : i \in Gyros}

LEMMA CreateFacts ==
  ASSUME ControlType, NEW u \in Singles, NEW l \in Locations, create_signals_gyros(u, l)
  PROVE  /\ pair' \in [Gyros -> 1..Lives]
         /\ pc' \in [Threads -> Locations]
         /\ pc'[u] = l
         /\ NewPairs \subseteq SignalGyros \cup GyroThreads
         /\ \A t \in Threads \ (NewPairs \cup {u}) : pc'[t] = pc[t]
         /\ \A i \in Gyros : pc'[SG(i, pair'[i])] = Loop /\ pc'[GT(i, pair'[i])] = "pause"
         /\ \A t \in NewPairs : pc[t] = "dead"
         /\ cancelled' = cancelled \ NewPairs /\ missed' = missed \ NewPairs
         /\ dud' \subseteq GyroThreads
         /\ state_gyros' = [i \in Gyros |-> 0]
<1>1. \A i \in Gyros : pair'[i] \in FreePlaces(i)
  <2> TAKE i \in Gyros
  <2>1. FreePlaces(i) # {}
    BY DEF create_signals_gyros
  <2>2. pair'[i] = CHOOSE k \in FreePlaces(i) : TRUE
    BY DEF create_signals_gyros
  <2> QED
    BY <2>1, <2>2
<1>2. pair' \in [Gyros -> 1..Lives]
  BY <1>1 DEF create_signals_gyros, FreePlaces
<1>3. \A i \in Gyros : SG(i, pair'[i]) \in SignalGyros /\ GT(i, pair'[i]) \in GyroThreads
  BY <1>2, Names
<1>4. NewPairs \subseteq SignalGyros \cup GyroThreads
  BY <1>3 DEF NewPairs
<1>5. \A t \in NewPairs : pc[t] = "dead"
  BY <1>1 DEF NewPairs, FreePlaces
<1>6. /\ pc' = [t \in Threads |->
                  IF t = u THEN l
                  ELSE IF t \notin NewPairs THEN pc[t]
                  ELSE IF t \in SignalGyros THEN Loop ELSE "pause"]
      /\ missed' = missed \ NewPairs /\ cancelled' = cancelled \ NewPairs
  BY DEF create_signals_gyros, NewPairs
<1>7. pc' \in [Threads -> Locations]
  BY <1>6, LoopFact DEF ControlType, Locations
<1>8. \A i \in Gyros : pc'[SG(i, pair'[i])] = Loop /\ pc'[GT(i, pair'[i])] = "pause"
  <2> TAKE i \in Gyros
  <2>1. SG(i, pair'[i]) \in NewPairs /\ GT(i, pair'[i]) \in NewPairs
    BY DEF NewPairs
  <2> QED
    BY <2>1, <1>3, <1>6, Classes
<1>9. dud' \subseteq GyroThreads
  BY <1>3 DEF create_signals_gyros, ControlType
<1>10. state_gyros' = [i \in Gyros |-> 0]
  BY DEF create_signals_gyros
<1> QED
  BY <1>2, <1>4, <1>5, <1>6, <1>7, <1>8, <1>9, <1>10, Classes

LEMMA WakeFacts ==
  ASSUME ControlType, WakeEngine
  PROVE  /\ princp_engine' = 1
         /\ parked' \in {parked, parked \ {PE(engine)}}
         /\ raced \subseteq raced'
         /\ princp_engine = 0 => raced' = raced \cup Windows
         /\ princp_engine = 1 => parked' = parked /\ raced' = raced
<1>0. princp_engine = 0 \/ princp_engine = 1
  <2>1. princp_engine \in 0..1
    BY DEF ControlType
  <2> QED
    BY <2>1
<1>1. CASE princp_engine = 0
  BY <1>1 DEF WakeEngine
<1>2. CASE princp_engine = 1
  BY <1>2 DEF WakeEngine
<1> QED
  BY <1>0, <1>1, <1>2

LEMMA StopFacts ==
  ASSUME ControlType, StopEngine
  PROVE  /\ parked \subseteq parked' /\ parked' \subseteq parked \cup {PE(engine)}
         /\ pc[PE(engine)] = "dead" \/ PE(engine) \in parked'
  BY DEF StopEngine

LEMMA SignalFacts ==
  ASSUME ControlType, NEW u \in Threads, NEW t \in Threads, u # t, SignalAndPause(u, t)
  PROVE  /\ pc' \in [Threads -> Locations]
         /\ pc'[u] = "pause"
         /\ pc[t] # "asleep" => pc'[t] = pc[t] /\ missed' = missed \cup {t}
         /\ pc[t] = "asleep" => pc'[t] = Loop /\ missed' = missed \ {t}
         /\ \A v \in Threads \ {u, t} : pc'[v] = pc[v]
  BY LoopFact DEF ControlType, SignalAndPause, Locations

-----------------------------------------------------------------------------
(* Types.                                                                  *)

LEMMA ControlInit == Init => ControlType
<1> SUFFICES ASSUME Init PROVE ControlType
  OBVIOUS
<1>1. pc \in [Threads -> Locations]
  BY DEF Init, Locations
<1>2. pc[MA] = "top"
  <2>1. MA \in Threads /\ MA # GU /\ MA \notin GyroThreads
    BY Classes, SinglesDistinct DEF Singles
  <2> QED
    BY <2>1 DEF Init
<1>3. pair \in [Gyros -> 1..Lives] /\ engine \in 1..Engines
  BY BoundsAssumption DEF Init
<1>4. state_gyros \in [Gyros -> 0..1] /\ sem_gs \in [Gyros -> EngineThreads \cup {Nobody}]
  BY DEF Init
<1>5. /\ cancelled = {} /\ parked = {} /\ dud = {} /\ sem_gas = Nobody
      /\ is_on = TRUE /\ princp_engine = 1 /\ manual_explote = 0
  BY DEF Init
<1> QED
  BY <1>1, <1>2, <1>3, <1>4, <1>5 DEF ControlType

\* What the data of the simulator and of the instruments says of no thread.
controlVars == <<pc, cancelled, parked, pair, engine, dud, sem_gs, sem_gas, is_on,
                 princp_engine, manual_explote, state_gyros>>

LEMMA ControlSame == ASSUME ControlType, UNCHANGED controlVars PROVE ControlType'
  BY DEF ControlType, controlVars

\* Thread t goes on to l, and of the rest only the semaphores change.
LEMMA ControlMove ==
  ASSUME ControlType, NEW t \in Threads, NEW l \in Locations, Go(t, l),
         t = MA => l \notin {"engine", "engine and thrusters"},
         sem_gs' \in [Gyros -> EngineThreads \cup {Nobody}],
         sem_gas' \in Threads \cup {Nobody},
         is_on' \in BOOLEAN, manual_explote' \in 0..1, state_gyros' \in [Gyros -> 0..1],
         cancelled' \subseteq Threads, parked' \subseteq EngineThreads, princp_engine' \in 0..1,
         UNCHANGED <<pair, engine, dud>>
  PROVE  ControlType'
<1>1. pc' \in [Threads -> Locations]
  BY DEF ControlType, Go
<1>2. MA \in Threads
  BY Classes DEF Singles
<1>3. pc'[MA] \in {"engine", "engine and thrusters"} => pc'[MA] = pc[MA]
  BY <1>2 DEF ControlType, Go
<1> QED
  BY <1>1, <1>3 DEF ControlType

LEMMA ControlRest ==
  ASSUME ControlType, pc' \in [Threads -> Locations], pc'[MA] = pc[MA],
         pair' \in [Gyros -> 1..Lives], dud' \subseteq GyroThreads,
         is_on' \in BOOLEAN, state_gyros' \in [Gyros -> 0..1],
         cancelled' \subseteq Threads, parked' \subseteq EngineThreads, princp_engine' \in 0..1,
         UNCHANGED <<sem_gs, sem_gas, manual_explote, engine>>
  PROVE  ControlType'
  BY DEF ControlType

\* pthread_cancel is never called for sig_handler_manual.
LEMMA CancelType ==
  ASSUME ControlType, NEW T \in SUBSET (Threads \ {MA}), NEW u \in Threads \ {MA},
         NEW l \in Locations, Cancel(T, u, l)
  PROVE  pc' \in [Threads -> Locations] /\ (pc'[MA] = pc[MA]) /\ cancelled' \subseteq Threads
<1>1. T \in SUBSET Threads /\ u \in Threads
  OBVIOUS
<1>2. MA \in Threads \ (T \cup {u})
  BY Classes DEF Singles
<1>3. cancelled \subseteq Threads
  BY DEF ControlType
<1>4. /\ pc' \in [Threads -> Locations]
      /\ \A t \in Threads \ (T \cup {u}) : pc'[t] = pc[t]
      /\ cancelled' \subseteq cancelled \cup T
  BY <1>1, CancelFacts
<1> QED
  BY <1>1, <1>2, <1>3, <1>4

LEMMA ControlGyros ==
  ASSUME ControlType, NEW i \in Gyros, NEW k \in 1..Lives,
         signal_gyro(i, k) \/ gyroscope_thread(i, k)
  PROVE  ControlType'
<1> DEFINE sg == SG(i, k)
           gt == GT(i, k)
<1>1. /\ sg \in Threads /\ gt \in Threads /\ sg # MA /\ gt # MA
      /\ \A j \in Gyros : SG(j, pair[j]) \in Threads \ {MA, gt} /\ GT(j, pair[j]) \in Threads \ {MA, sg}
  <2>1. sg \in SignalGyros /\ gt \in GyroThreads /\ MA \in Singles
    BY Names DEF Singles
  <2> HIDE DEF sg, gt
  <2> QED
    BY <2>1, PairNames, Classes
<1> USE LoopFact, LocationNames DEF At, locks, flags, arrays
<1>2. CASE signal_gyro(i, k)
  <2>1. CASE pc[sg] = "top"
    BY <1>1, <1>2, <2>1, ControlMove DEF signal_gyro, ControlType
  <2>2. CASE pc[sg] # "top"
    <3>1. SignalAndPause(sg, GT(i, pair[i])) /\ UNCHANGED <<cancelled, parked, locks, flags, arrays>>
      BY <1>2, <2>2 DEF signal_gyro
    <3>2. pc' \in [Threads -> Locations] /\ (pc'[MA] = pc[MA])
      BY <1>1, <3>1, SignalFacts, Classes DEF Singles
    <3> QED
      BY <3>1, <3>2 DEF ControlType
  <2> QED
    BY <2>1, <2>2
<1>3. CASE Look(i, k)
  <2>1. state_gyros' \in [Gyros -> 0..1]
    <3>1. state_gyros' = state_gyros \/ state_gyros' = [state_gyros EXCEPT ![i] = 1]
      BY <1>3 DEF Look
    <3>2. state_gyros \in [Gyros -> 0..1]
      BY DEF ControlType
    <3> QED
      BY <3>1, <3>2, Bits
  <2> QED
    BY <1>1, <1>3, <2>1, ControlMove DEF Look, ControlType
<1>4. CASE TakeGas(gt, "burn")
  BY <1>1, <1>4, ControlMove DEF TakeGas, ControlType
<1>5. CASE Correct(i, k)
  BY <1>1, <1>5, ControlMove DEF Correct, ControlType
<1>6. CASE WakeSignalGyro(i, k)
  <2>1. SignalAndPause(gt, SG(i, pair[i])) /\ UNCHANGED <<cancelled, parked, locks, flags, arrays>>
    BY <1>6 DEF WakeSignalGyro
  <2>2. pc' \in [Threads -> Locations] /\ (pc'[MA] = pc[MA])
    BY <1>1, <2>1, SignalFacts, Classes DEF Singles
  <2> QED
    BY <2>1, <2>2 DEF ControlType
<1> QED
  BY <1>2, <1>3, <1>4, <1>5, <1>6 DEF gyroscope_thread

LEMMA ControlEngine ==
  ASSUME ControlType, NEW k \in 1..Engines, pricipal_engine_thread(k)
  PROVE  ControlType'
<1> DEFINE t == PE(k)
<1>1. t \in Threads /\ t # MA /\ t \in EngineThreads
  BY Names, Classes DEF Singles
<1> USE LoopFact, LocationNames DEF At, locks, flags, arrays
<1>2. CASE TakeGyros(k)
  <2>1. \E i : sem_gs' = [sem_gs EXCEPT ![i] = t]
    BY <1>2 DEF TakeGyros
  <2>2. sem_gs' \in [Gyros -> EngineThreads \cup {Nobody}]
    BY <1>1, <2>1 DEF ControlType
  <2>3. Go(t, "gas") \/ Go(t, "gs")
    BY <1>2 DEF TakeGyros
  <2> QED
    BY <1>1, <1>2, <2>2, <2>3, ControlMove DEF TakeGyros, ControlType
<1>3. ASSUME NEW l \in {"store", "post"}, TakeGas(t, l) PROVE ControlType'
  BY <1>1, <1>3, ControlMove DEF TakeGas, ControlType
<1>4. CASE Refill(k)
  BY <1>1, <1>4, ControlMove DEF Refill, ControlType
<1> QED
  BY <1>2, <1>3, <1>4 DEF pricipal_engine_thread

LEMMA ControlLanding ==
  ASSUME ControlType, signal_restart_landing \/ go_up_30m \/ signal_landing_check
  PROVE  ControlType'
<1>1. {RL, GU, LC, SE, MAIN, MA} \subseteq Threads /\ MA \notin {RL, GU, LC, SE, MAIN} /\ RL # GU
  BY Classes, SinglesDistinct DEF Singles
<1>2. CurrentPairs \subseteq Threads /\ MA \notin CurrentPairs
  BY Targets, Classes DEF Singles
<1> USE LoopFact, LocationNames DEF At, locks, flags, arrays
<1>3. /\ CurrentPairs \in SUBSET (Threads \ {MA}) /\ {GU, RL} \cup {SE, MAIN} \in SUBSET (Threads \ {MA})
      /\ RL \in Threads \ {MA} /\ LC \in Threads \ {MA}
  BY <1>1, <1>2
<1>4. CASE signal_restart_landing
  <2>1. CASE At(RL, "top") /\ ~(distance < 5 /\ \E i \in Gyros : gyros[i] # 0)
    BY <1>1, <1>4, <2>1, ControlMove DEF signal_restart_landing, ControlType
  <2>2. CASE At(RL, "top") /\ distance < 5 /\ \E i \in Gyros : gyros[i] # 0
    <3>1. /\ Cancel(CurrentPairs, RL, "kill") /\ WakeEngine
          /\ UNCHANGED <<locks, is_on, manual_explote, arrays>>
      BY <1>4, <2>2, Targets DEF signal_restart_landing
    <3>2. parked' \in {parked, parked \ {PE(engine)}} /\ princp_engine' = 1
      BY <3>1, WakeFacts
    <3>3. pc' \in [Threads -> Locations] /\ (pc'[MA] = pc[MA]) /\ cancelled' \subseteq Threads
      BY <1>3, <3>1, CancelType
    <3>4. parked' \subseteq EngineThreads /\ princp_engine' \in 0..1
      BY <3>2, Bits DEF ControlType
    <3> QED
      BY <3>1, <3>3, <3>4, ControlRest DEF ControlType
  <2>3. CASE At(RL, "kill")
    <3>1. SignalAndPause(RL, GU) /\ UNCHANGED <<cancelled, parked, locks, flags, arrays>>
      BY <1>4, <2>3 DEF signal_restart_landing
    <3>2. pc' \in [Threads -> Locations] /\ (pc'[MA] = pc[MA])
      BY <1>1, <3>1, SignalFacts
    <3> QED
      BY <3>1, <3>2 DEF ControlType
  <2> QED
    BY <1>4, <2>1, <2>2, <2>3 DEF signal_restart_landing
<1>5. CASE LoadDistance
  BY <1>1, <1>5, ControlMove DEF LoadDistance, ControlType
<1>6. CASE StoreDistance
  BY <1>1, <1>6, ControlMove DEF StoreDistance, ControlType
<1>7. CASE EndClimb
  <2>1. create_signals_gyros(GU, "kill") /\ UNCHANGED <<parked, locks, flags, engine>>
    BY <1>7 DEF EndClimb
  <2>2. /\ pc' \in [Threads -> Locations] /\ pair' \in [Gyros -> 1..Lives] /\ dud' \subseteq GyroThreads
        /\ NewPairs \subseteq SignalGyros \cup GyroThreads
        /\ \A t \in Threads \ (NewPairs \cup {GU}) : pc'[t] = pc[t]
        /\ cancelled' = cancelled \ NewPairs
        /\ state_gyros' = [i \in Gyros |-> 0]
    BY <2>1, CreateFacts DEF Singles
  <2>3. pc'[MA] = pc[MA]
    BY <1>1, <2>2, Classes DEF Singles
  <2>4. state_gyros' \in [Gyros -> 0..1]
    BY <2>2, Bits
  <2>5. cancelled' \subseteq cancelled
    BY <2>2
  <2> QED
    BY <2>1, <2>2, <2>3, <2>4, <2>5, ControlRest DEF ControlType
<1>8. CASE WakeRestarter
  <2>1. SignalAndPause(GU, RL) /\ UNCHANGED <<cancelled, parked, locks, flags, arrays>>
    BY <1>8 DEF WakeRestarter
  <2>2. pc' \in [Threads -> Locations] /\ (pc'[MA] = pc[MA])
    BY <1>1, <2>1, SignalFacts
  <2> QED
    BY <2>1, <2>2 DEF ControlType
<1>9. CASE DeclareLanding
  <2>1. CASE At(LC, "top")
    BY <1>1, <1>9, <2>1, ControlMove DEF DeclareLanding, ControlType
  <2>2. CASE pc[LC] # "top"
    <3>1. Cancel({GU, RL} \cup {SE, MAIN}, LC, "dead") /\ UNCHANGED <<parked, locks, flags, arrays>>
      BY <1>9, <2>2, Targets DEF DeclareLanding
    <3>2. pc' \in [Threads -> Locations] /\ (pc'[MA] = pc[MA]) /\ cancelled' \subseteq Threads
      BY <1>3, <3>1, CancelType
    <3> QED
      BY <3>1, <3>2, ControlRest DEF ControlType
  <2> QED
    BY <1>9, <2>1, <2>2 DEF DeclareLanding
<1>10. CASE CutEngine
  <2>1. CASE At(LC, "top")
    <3>1. Cancel(CurrentPairs, LC, "stop") /\ princp_engine' = 0 /\ UNCHANGED <<parked, locks, is_on, manual_explote, arrays>>
      BY <1>10, <2>1, Targets DEF CutEngine
    <3>2. pc' \in [Threads -> Locations] /\ (pc'[MA] = pc[MA]) /\ cancelled' \subseteq Threads
      BY <1>3, <3>1, CancelType
    <3>3. princp_engine' \in 0..1
      BY <3>1, Bits
    <3> QED
      BY <3>1, <3>2, <3>3, ControlRest DEF ControlType
  <2>2. CASE pc[LC] # "top"
    <3>1. Go(LC, Loop) /\ StopEngine /\ UNCHANGED <<cancelled, locks, flags, arrays>>
      BY <1>10, <2>2 DEF CutEngine
    <3>2. parked' \subseteq EngineThreads
      BY <3>1, StopFacts, Names DEF ControlType
    <3> QED
      BY <1>1, <3>1, <3>2, ControlMove DEF ControlType
  <2> QED
    BY <1>10, <2>1, <2>2 DEF CutEngine
<1>11. CASE GoOnLanding
  BY <1>1, <1>11, ControlMove DEF GoOnLanding, ControlType
<1> QED
  BY <1>4, <1>5, <1>6, <1>7, <1>8, <1>9, <1>10, <1>11 DEF go_up_30m, signal_landing_check

LEMMA ControlAbort ==
  ASSUME ControlType, signal_explote_rocket \/ go_up_explode
  PROVE  ControlType'
<1>1. {RL, GU, SE, EX, MAIN} \subseteq Threads \ {MA} /\ SE # EX
  BY Classes, SinglesDistinct DEF Singles
<1>2. CurrentPairs \in SUBSET (Threads \ {MA}) /\ {GU, RL} \in SUBSET (Threads \ {MA})
  BY <1>1, Targets, Classes DEF Singles
<1>3. PE(engine) \in EngineThreads /\ {PE(engine), MAIN} \in SUBSET (Threads \ {MA})
  <2>1. PE(engine) \in EngineThreads /\ MA \in Singles
    BY Names DEF ControlType, Singles
  <2> QED
    BY <1>1, <2>1, Classes
<1> USE LoopFact, LocationNames DEF At, locks, flags, arrays
<1>4. CASE signal_explote_rocket
  <2>1. CASE At(SE, "top") /\ ~(gasoline < 10 \/ manual_explote = 1)
    BY <1>1, <1>4, <2>1, ControlMove DEF signal_explote_rocket, ControlType
  <2>2. CASE At(SE, "top") /\ (gasoline < 10 \/ manual_explote = 1)
    <3>1. /\ Cancel(CurrentPairs, SE, "abort") /\ WakeEngine
          /\ UNCHANGED <<locks, is_on, manual_explote, arrays>>
      BY <1>4, <2>2, Targets DEF signal_explote_rocket
    <3>2. parked' \in {parked, parked \ {PE(engine)}} /\ princp_engine' = 1
      BY <3>1, WakeFacts
    <3>3. pc' \in [Threads -> Locations] /\ (pc'[MA] = pc[MA]) /\ cancelled' \subseteq Threads
      BY <1>1, <1>2, <3>1, CancelType
    <3>4. parked' \subseteq EngineThreads /\ princp_engine' \in 0..1
      BY <3>2, Bits DEF ControlType
    <3> QED
      BY <3>1, <3>3, <3>4, ControlRest DEF ControlType
  <2>3. CASE At(SE, "abort")
    <3>1. Cancel({GU, RL}, SE, "create") /\ UNCHANGED <<parked, locks, flags, arrays>>
      BY <1>4, <2>3, Targets DEF signal_explote_rocket
    <3>2. pc' \in [Threads -> Locations] /\ (pc'[MA] = pc[MA]) /\ cancelled' \subseteq Threads
      BY <1>1, <1>2, <3>1, CancelType
    <3> QED
      BY <3>1, <3>2, ControlRest DEF ControlType
  <2>4. CASE At(SE, "create")
    <3>1. /\ pc' = [pc EXCEPT ![SE] = "dead", ![EX] = IF is_on THEN "gas" ELSE "dead"]
          /\ UNCHANGED <<cancelled, parked, locks, flags, arrays>>
      BY <1>4, <2>4 DEF signal_explote_rocket
    <3>2. pc \in [Threads -> Locations] /\ MA \in Threads
      BY Classes DEF ControlType, Singles
    <3>3. pc' \in [Threads -> Locations]
      BY <3>1, <3>2
    <3>4. pc'[MA] = pc[MA]
      BY <1>1, <3>1, <3>2
    <3> QED
      BY <3>1, <3>3, <3>4, ControlRest DEF ControlType
  <2> QED
    BY <1>4, <2>1, <2>2, <2>3, <2>4 DEF signal_explote_rocket
<1>5. CASE TakeGasToClimb
  BY <1>1, <1>5, ControlMove DEF TakeGasToClimb, ControlType
<1>6. CASE Compensate
  BY <1>1, <1>6, ControlMove DEF Compensate, ControlType
<1>7. CASE Explode
  <2>1. /\ Cancel({PE(engine), MAIN}, EX, "dead") /\ parked' = parked \ {PE(engine)}
        /\ UNCHANGED <<locks, flags, arrays>>
    BY <1>7 DEF Explode
  <2>2. pc' \in [Threads -> Locations] /\ (pc'[MA] = pc[MA]) /\ cancelled' \subseteq Threads
    BY <1>1, <1>3, <2>1, CancelType
  <2> QED
    BY <2>1, <2>2, ControlRest DEF ControlType
<1> QED
  BY <1>4, <1>5, <1>6, <1>7 DEF go_up_explode

LEMMA ControlAlarm ==
  ASSUME ControlType, sig_handler_manual
  PROVE  ControlType'
<1>1. MA \in Threads /\ MA \in Singles
  BY Classes DEF Singles
<1> USE LoopFact, LocationNames DEF At, locks, flags, arrays
<1>2. CASE ReadAlarm
  <2>1. Branch \in Locations \ {"engine", "engine and thrusters"}
    BY DEF Branch
  <2>2. manual_explote' \in 0..1
    <3>1. manual_explote' \in {1, manual_explote} /\ manual_explote \in 0..1
      BY <1>2 DEF ReadAlarm, ControlType
    <3> QED
      BY <3>1, Bits
  <2>3. \E l \in {Branch, Loop} : Go(MA, l)
    BY <1>2 DEF ReadAlarm
  <2> QED
    BY <1>1, <1>2, <2>1, <2>2, <2>3, ControlMove DEF ReadAlarm, ControlType
<1>3. CASE RestartEngine /\ pc[MA] \in {"stop", "stop and thrusters"}
  <2>1. /\ engine < Engines /\ StopEngine /\ princp_engine' = 0
        /\ pc' = [pc EXCEPT ![MA] = IF pc[MA] = "stop" THEN "engine" ELSE "engine and thrusters"]
        /\ UNCHANGED <<cancelled, locks, is_on, manual_explote, arrays>>
    BY <1>3 DEF RestartEngine, Go
  <2>2. parked' \subseteq EngineThreads /\ princp_engine' \in 0..1
    BY <2>1, StopFacts, Names, Bits DEF ControlType
  <2>3. pc' \in [Threads -> Locations]
    BY <1>1, <2>1 DEF ControlType
  <2> QED
    BY <2>1, <2>2, <2>3 DEF ControlType
<1>4. CASE RestartEngine /\ pc[MA] \in {"engine", "engine and thrusters"}
  <2>1. /\ engine' = engine + 1 /\ princp_engine' = 1
        /\ pc' = [pc EXCEPT ![PE(engine + 1)] = Loop,
                            ![MA] = IF @ = "engine" THEN "seen" ELSE "thrusters"]
        /\ UNCHANGED <<cancelled, parked, locks, is_on, manual_explote, pair, dud, state_gyros>>
    BY <1>4 DEF RestartEngine
  <2>2. engine' \in 1..Engines
    <3>1. engine \in 1..Engines /\ engine < Engines
      BY <1>4 DEF ControlType
    <3>2. engine' = engine + 1
      BY <2>1
    <3> HIDE LocationNames, LoopFact
    <3> QED
      BY <3>1, <3>2, EnginesNat
  <2>3. PE(engine + 1) # MA /\ PE(engine + 1) \in Threads
    BY <1>1, <2>1, <2>2, Names, Classes
  <2>4. pc'[MA] \in {"seen", "thrusters"}
    BY <1>1, <2>1, <2>3 DEF ControlType
  <2>5. pc' \in [Threads -> Locations]
    BY <1>1, <2>1, <2>3 DEF ControlType
  <2>6. princp_engine' \in 0..1
    BY <2>1, Bits
  <2> QED
    BY <2>1, <2>2, <2>4, <2>5, <2>6 DEF ControlType
<1>5. CASE restart_thrusters /\ pc[MA] = "thrusters"
  <2>1. Cancel(CurrentPairs, MA, "create") /\ UNCHANGED <<parked, locks, flags, arrays>>
    BY <1>5, Targets DEF restart_thrusters
  <2>2. CurrentPairs \in SUBSET Threads /\ cancelled \subseteq Threads
    BY Targets, Classes DEF ControlType
  <2>3. /\ pc' \in [Threads -> Locations] /\ (pc'[MA] = "create")
        /\ cancelled' \subseteq cancelled \cup CurrentPairs
    <3>1. "create" \in Locations /\ Cancel(CurrentPairs, MA, "create")
      BY <2>1
    <3> HIDE LocationNames, LoopFact
    <3> QED
      BY <1>1, <2>2, <3>1, CancelFacts
  <2>4. cancelled' \subseteq Threads
    BY <2>2, <2>3
  <2> QED
    BY <2>1, <2>3, <2>4 DEF ControlType
<1>6. CASE restart_thrusters /\ pc[MA] = "create"
  <2>1. create_signals_gyros(MA, "seen") /\ UNCHANGED <<parked, locks, flags, engine>>
    BY <1>6 DEF restart_thrusters
  <2>2. /\ pc' \in [Threads -> Locations] /\ pair' \in [Gyros -> 1..Lives] /\ dud' \subseteq GyroThreads
        /\ pc'[MA] = "seen"
        /\ cancelled' = cancelled \ NewPairs
        /\ state_gyros' = [i \in Gyros |-> 0]
    BY <1>1, <2>1, CreateFacts
  <2>3. state_gyros' \in [Gyros -> 0..1]
    BY <2>2, Bits
  <2>4. cancelled' \subseteq cancelled
    BY <2>2
  <2> QED
    BY <2>1, <2>2, <2>3, <2>4 DEF ControlType
<1>7. CASE SeeAlarm
  BY <1>1, <1>7, ControlMove DEF SeeAlarm, ControlType
<1> QED
  BY <1>2, <1>3, <1>4, <1>5, <1>6, <1>7 DEF sig_handler_manual, RestartEngine, restart_thrusters

LEMMA ControlNext == ControlType /\ [Next]_vars => ControlType'
<1> SUFFICES ASSUME ControlType, [Next]_vars PROVE ControlType'
  OBVIOUS
<1> USE LoopFact, LocationNames DEF At, locks, flags, arrays
<1>1. CASE SimulatorStep \/ UNCHANGED vars
  BY <1>1, ControlSame DEF SimulatorStep, vars, controlVars
<1>2. CASE Main
  <2>1. MAIN \in Threads /\ MAIN # MA
    BY Classes, SinglesDistinct DEF Singles
  <2> QED
    BY <1>2, <2>1, ControlMove DEF Main, ControlType
<1>3. ASSUME NEW p \in Pairs, signal_gyro(p[1], p[2]) \/ gyroscope_thread(p[1], p[2])
      PROVE  ControlType'
  <2>1. p[1] \in Gyros /\ p[2] \in 1..Lives
    BY DEF Pairs
  <2> QED
    BY <1>3, <2>1, ControlGyros
<1>4. CASE \E k \in 1..Engines : pricipal_engine_thread(k)
  BY <1>4, ControlEngine
<1>5. CASE signal_restart_landing \/ go_up_30m \/ signal_landing_check
  BY <1>5, ControlLanding
<1>6. CASE signal_explote_rocket \/ go_up_explode
  BY <1>6, ControlAbort
<1>7. CASE sig_handler_manual
  BY <1>7, ControlAlarm
<1>8. ASSUME NEW t \in Threads, Pause(t) \/ Cancelled(t) \/ Leave(t) PROVE ControlType'
  BY <1>8, ControlMove DEF Pause, Cancelled, Leave, ControlType
<1> QED
  BY <1>1, <1>2, <1>3, <1>4, <1>5, <1>6, <1>7, <1>8 DEF Next

-----------------------------------------------------------------------------
(* Who moves whom.                                                         *)

\* A thread that another's step leaves alone, cancels or wakes.
Still(v) == pc'[v] \in {pc[v], "dead"} \/ (pc[v] = "pause" /\ pc'[v] = "asleep")
Woken(v) == pc[v] = "asleep" /\ pc'[v] = Loop

LEMMA GoOnly ==
  ASSUME NEW t, NEW l, Go(t, l), ControlType, NEW v \in Threads, v # t
  PROVE  Still(v)
  BY DEF Go, ControlType, Still

LEMMA SignalOnly ==
  ASSUME ControlType, NEW u \in Threads, NEW t \in Threads, u # t, SignalAndPause(u, t),
         NEW v \in Threads, v # u
  PROVE  Still(v) \/ (v = t /\ Woken(v))
  BY SignalFacts DEF Still, Woken

LEMMA CancelOnly ==
  ASSUME ControlType, NEW T \in SUBSET Threads, NEW u \in Threads, NEW l \in Locations,
         Cancel(T, u, l), NEW v \in Threads, v # u
  PROVE  Still(v)
<1>1. pc'[v] = pc[v] \/ pc'[v] = "dead"
  <2>1. pc' = [t \in Threads |->
                 IF t = u THEN l ELSE IF t \in T /\ Cancellable(t) THEN "dead" ELSE pc[t]]
    BY DEF Cancel
  <2> QED
    BY <2>1
<1> QED
  BY <1>1 DEF Still

LEMMA CreateOnly ==
  ASSUME ControlType, NEW u \in Singles, NEW l \in Locations, create_signals_gyros(u, l),
         NEW v \in Singles \cup EngineThreads, v # u
  PROVE  pc'[v] = pc[v]
<1>1. v \notin NewPairs /\ v \in Threads
  BY CreateFacts, Classes
<1> QED
  BY <1>1, CreateFacts

\* Nobody but the function named moves an engine or a thread that exists once.
LEMMA Bystanders ==
  ASSUME ControlType, Next
  PROVE  /\ Still(MA) \/ sig_handler_manual
         /\ Still(LC) \/ signal_landing_check
         /\ Still(SE) \/ signal_explote_rocket
         /\ Still(EX) \/ signal_explote_rocket \/ go_up_explode
         /\ Still(RL) \/ Woken(RL) \/ signal_restart_landing
         /\ Still(GU) \/ Woken(GU) \/ go_up_30m
         /\ \A k \in 1..Engines :
              \/ Still(PE(k)) \/ pricipal_engine_thread(k)
              \/ k = engine + 1 /\ engine' = k /\ sig_handler_manual
<1> DEFINE Watched == Singles \cup EngineThreads
<1>1. /\ Watched \subseteq Threads /\ Singles \subseteq Watched
      /\ \A k \in 1..Engines : PE(k) \in Watched \ Singles
      /\ {MA, LC, SE, EX, RL, GU, MAIN} \subseteq Singles
      /\ CurrentPairs \in SUBSET Threads /\ {GU, RL} \in SUBSET Threads
      /\ {GU, RL, SE, MAIN} \in SUBSET Threads
  <2>1. /\ Watched \subseteq Threads /\ Singles \subseteq Watched
        /\ {MA, LC, SE, EX, RL, GU, MAIN} \subseteq Singles
    BY Classes DEF Singles
  <2>2. \A k \in 1..Engines : PE(k) \in Watched \ Singles
    BY Names, Distinct
  <2>3. CurrentPairs \in SUBSET Threads
    BY Targets, Classes
  <2> QED
    BY <2>1, <2>2, <2>3
<1> HIDE DEF Watched
<1> DEFINE Aside(u) == \A v \in Watched \ {u} : Still(v) \/ (v \in {RL, GU} /\ Woken(v))
<1>2. ASSUME NEW u, NEW l, Go(u, l) PROVE Aside(u)
  BY <1>1, <1>2, GoOnly
<1>3. ASSUME NEW u, u \in {RL, LC, SE, MA}, NEW l \in Locations,
             NEW T \in {CurrentPairs, {GU, RL}, {GU, RL, SE, MAIN}}, Cancel(T, u, l)
      PROVE  Aside(u)
  BY <1>1, <1>3, CancelOnly
<1>4. ASSUME NEW u \in {GU, MA}, NEW l \in Locations, create_signals_gyros(u, l) PROVE Aside(u)
  <2> SUFFICES ASSUME NEW v \in Watched \ {u} PROVE pc'[v] = pc[v]
    BY DEF Still
  <2> QED
    BY <1>1, <1>4, CreateOnly DEF Watched
<1>5. ASSUME pc' = pc PROVE \A v : Still(v)
  BY <1>5 DEF Still
<1>6. ASSUME NEW p \in Pairs, signal_gyro(p[1], p[2]) \/ gyroscope_thread(p[1], p[2])
      PROVE  \A v \in Watched : Still(v)
  <2> DEFINE i == p[1]
             sg == SG(i, p[2])
             gt == GT(i, p[2])
             sg1 == SG(i, pair[i])
             gt1 == GT(i, pair[i])
  <2>1. i \in Gyros /\ p[2] \in 1..Lives
    BY DEF Pairs
  <2>2. sg \in SignalGyros /\ gt \in GyroThreads /\ sg1 \in SignalGyros /\ gt1 \in GyroThreads
    BY <2>1, Names, PairNames
  <2>3. \/ \E l : Go(sg, l) \/ Go(gt, l)
        \/ SignalAndPause(sg, gt1) \/ SignalAndPause(gt, sg1)
    BY <1>6 DEF signal_gyro, gyroscope_thread, Look, TakeGas, Correct, WakeSignalGyro
  <2> HIDE DEF i, sg, gt, sg1, gt1
  <2> TAKE v \in Watched
  <2>4. v \in Threads /\ v \notin {sg, gt, sg1, gt1} /\ {sg, gt, sg1, gt1} \subseteq Threads
        /\ sg # gt1 /\ gt # sg1
    BY <2>2, Classes DEF Watched
  <2> QED
    BY <2>3, <2>4, GoOnly, SignalOnly
<1>7. ASSUME NEW k \in 1..Engines, pricipal_engine_thread(k)
      PROVE  /\ \A v \in Singles : Still(v)
             /\ \A j \in 1..Engines : Still(PE(j)) \/ j = k
  <2>1. \E l : Go(PE(k), l)
    BY <1>7 DEF pricipal_engine_thread, TakeGyros, TakeGas, Refill
  <2>2. \A v \in Watched \ {PE(k)} : Still(v)
    BY <1>1, <2>1, GoOnly
  <2>3. PE(k) \notin Singles /\ \A j : PE(j) = PE(k) => j = k
    BY Distinct
  <2> QED
    BY <1>1, <2>2, <2>3
<1>8. CASE signal_restart_landing
  <2>1. Aside(RL)
    <3>1. CASE \E l : Go(RL, l)
      BY <1>2, <3>1
    <3>2. CASE Cancel(CurrentPairs, RL, "kill")
      BY <1>1, <1>3, <3>2, LocationNames
    <3>3. CASE SignalAndPause(RL, GU)
      BY <1>1, <3>3, SignalOnly, SinglesDistinct
    <3> QED
      BY <1>8, <3>1, <3>2, <3>3, Targets DEF signal_restart_landing
  <2> QED
    BY <1>1, <1>8, <2>1, SinglesDistinct
<1>9. CASE go_up_30m
  <2>1. Aside(GU)
    <3>1. CASE \E l : Go(GU, l)
      BY <1>2, <3>1
    <3>2. CASE create_signals_gyros(GU, "kill")
      BY <1>4, <3>2, LocationNames
    <3>3. CASE SignalAndPause(GU, RL)
      BY <1>1, <3>3, SignalOnly, SinglesDistinct
    <3> QED
      BY <1>9, <3>1, <3>2, <3>3
      DEF go_up_30m, LoadDistance, StoreDistance, EndClimb, WakeRestarter
  <2> QED
    BY <1>1, <1>9, <2>1, SinglesDistinct
<1>10. CASE signal_landing_check
  <2>1. Aside(LC)
    <3>1. CASE \E l : Go(LC, l)
      BY <1>2, <3>1
    <3>2. CASE Cancel(CurrentPairs, LC, "stop")
      BY <1>3, <3>2, LocationNames
    <3>3. CASE Cancel(terminate_event_3 \cup {SE, MAIN}, LC, "dead")
      <4>1. terminate_event_3 \cup {SE, MAIN} = {GU, RL, SE, MAIN}
        BY Targets
      <4> QED
        BY <1>3, <3>3, <4>1, LocationNames
    <3> QED
      BY <1>10, <3>1, <3>2, <3>3, Targets
      DEF signal_landing_check, DeclareLanding, CutEngine, GoOnLanding
  <2> QED
    BY <1>1, <1>10, <2>1, SinglesDistinct
<1>11. CASE signal_explote_rocket
  <2>1. \A v \in Watched \ {SE, EX} : Still(v) \/ (v \in {RL, GU} /\ Woken(v))
    <3>1. CASE \E l : Go(SE, l)
      BY <1>2, <3>1
    <3>2. CASE Cancel(CurrentPairs, SE, "abort")
      BY <1>3, <3>2, LocationNames
    <3>3. CASE Cancel({GU, RL}, SE, "create")
      BY <1>3, <3>3, LocationNames
    <3>4. CASE pc' = [pc EXCEPT ![SE] = "dead", ![EX] = IF is_on THEN "gas" ELSE "dead"]
      BY <1>1, <3>4 DEF Still, ControlType
    <3> QED
      BY <1>11, <3>1, <3>2, <3>3, <3>4, Targets DEF signal_explote_rocket
  <2> QED
    BY <1>1, <1>11, <2>1, SinglesDistinct
<1>12. CASE go_up_explode
  <2>1. Aside(EX)
    <3>1. CASE \E l : Go(EX, l)
      BY <1>2, <3>1
    <3>2. CASE Cancel({PE(engine), MAIN}, EX, "dead")
      <4>1. PE(engine) \in Threads
        BY Names, Classes DEF ControlType
      <4>2. {PE(engine), MAIN} \in SUBSET Threads
        BY <1>1, <4>1
      <4> QED
        BY <1>1, <3>2, <4>2, CancelOnly, LocationNames
    <3> QED
      BY <1>12, <3>1, <3>2 DEF go_up_explode, TakeGasToClimb, Compensate, Explode
  <2> QED
    BY <1>1, <1>12, <2>1, SinglesDistinct
<1>13. CASE sig_handler_manual
  <2>1. CASE pc' = [pc EXCEPT ![PE(engine + 1)] = Loop,
                              ![MA] = IF @ = "engine" THEN "seen" ELSE "thrusters"]
             /\ engine' = engine + 1
    <3>1. \A v \in Watched \ {MA, PE(engine + 1)} : Still(v)
      BY <1>1, <2>1 DEF Still, ControlType
    <3>2. PE(engine + 1) \notin Singles /\ \A k \in 1..Engines : PE(k) = PE(engine + 1) => k = engine + 1
      BY Distinct
    <3> QED
      BY <1>1, <1>13, <2>1, <3>1, <3>2, SinglesDistinct
  <2>2. CASE Aside(MA)
    BY <1>1, <1>13, <2>2, SinglesDistinct
  <2>3. CASE \E l : Go(MA, l)
    BY <1>2, <2>2, <2>3
  <2>4. CASE Cancel(CurrentPairs, MA, "create")
    BY <1>3, <2>2, <2>4, LocationNames
  <2>5. CASE create_signals_gyros(MA, "seen")
    BY <1>4, <2>2, <2>5, LocationNames
  <2> QED
    BY <1>13, <2>1, <2>3, <2>4, <2>5, Targets
    DEF sig_handler_manual, ReadAlarm, RestartEngine, restart_thrusters, SeeAlarm
<1>14. CASE SimulatorStep
  BY <1>5, <1>14 DEF SimulatorStep
<1>15. CASE Main
  BY <1>1, <1>15, GoOnly, SinglesDistinct DEF Main
<1>16. ASSUME NEW t \in Threads, Pause(t) \/ Cancelled(t) \/ Leave(t)
       PROVE  \A v \in Watched : Still(v)
  BY <1>1, <1>16 DEF Pause, Cancelled, Leave, Go, At, Still, ControlType
<1>17. ASSUME NEW k \in 1..Engines, pricipal_engine_thread(k)
       PROVE  \A j \in 1..Engines : Still(PE(j)) \/ pricipal_engine_thread(j)
  BY <1>7, <1>17
<1> QED
  BY <1>1, <1>6, <1>7, <1>8, <1>9, <1>10, <1>11, <1>12, <1>13, <1>14, <1>15, <1>16, <1>17
  DEF Next

\* Who writes what, and that the history of the races only grows.
LEMMA Writers ==
  ASSUME ControlType, Next
  PROVE  /\ raced \subseteq raced'
         /\ alarma' = alarma \/ SimulatorStep
         /\ (last_alamra' = last_alamra /\ engine' = engine) \/ sig_handler_manual
         /\ (princp_engine' = princp_engine /\ raced' = raced) \/ WakeEngine
              \/ signal_landing_check \/ sig_handler_manual \/ SimulatorStep
         /\ parked' \subseteq parked \/ signal_landing_check \/ sig_handler_manual
         /\ is_on' = is_on \/ signal_landing_check \/ go_up_explode
<1> USE DEF locks, flags, arrays, instruments, simulator
<1>1. CASE SimulatorStep
  BY <1>1 DEF SimulatorStep
<1>2. CASE Main
  BY <1>2 DEF Main
<1>3. ASSUME NEW i, NEW k, signal_gyro(i, k) \/ gyroscope_thread(i, k)
      PROVE  UNCHANGED <<alarma, flags, engine, parked, raced>>
  BY <1>3 DEF signal_gyro, gyroscope_thread, Look, TakeGas, Correct, WakeSignalGyro
<1>4. ASSUME NEW k, pricipal_engine_thread(k)
      PROVE  UNCHANGED <<alarma, flags, engine, parked, raced>>
  BY <1>4 DEF pricipal_engine_thread, TakeGyros, TakeGas, Refill
<1>5. WakeEngine => raced \subseteq raced' /\ parked' \subseteq parked
  BY DEF WakeEngine
<1>6. CASE signal_restart_landing
  BY <1>5, <1>6 DEF signal_restart_landing
<1>7. CASE go_up_30m
  BY <1>7 DEF go_up_30m, LoadDistance, StoreDistance, EndClimb, WakeRestarter
<1>8. CASE signal_landing_check
  BY <1>8 DEF signal_landing_check, DeclareLanding, CutEngine, GoOnLanding
<1>9. CASE signal_explote_rocket
  BY <1>5, <1>9 DEF signal_explote_rocket
<1>10. CASE go_up_explode
  BY <1>10 DEF go_up_explode, TakeGasToClimb, Compensate, Explode
<1>11. CASE sig_handler_manual
  BY <1>11 DEF sig_handler_manual, ReadAlarm, RestartEngine, restart_thrusters, SeeAlarm
<1>12. ASSUME NEW t \in Threads, Pause(t) \/ Cancelled(t) \/ Leave(t)
       PROVE  UNCHANGED <<alarma, flags, engine, raced>> /\ parked' \subseteq parked
  BY <1>12 DEF Pause, Cancelled, Leave
<1> QED
  BY <1>1, <1>2, <1>3, <1>4, <1>6, <1>7, <1>8, <1>9, <1>10, <1>11, <1>12 DEF Next

-----------------------------------------------------------------------------
(* The types of the data.                                                  *)

LEMMA DataInit == Init => DataType
<1> SUFFICES ASSUME Init PROVE DataType
  OBVIOUS
<1>1. SimulatorInit /\ climb = 0 /\ loaded = 0
  BY DEF Init
<1>2. pc[GU] # "climb"
  <2>1. GU \in Threads
    BY Classes DEF Singles
  <2>2. \A t \in Threads : pc[t] \in {"asleep", "top", "dead"}
    BY DEF Init
  <2> QED
    BY <2>1, <2>2
<1>3. flight.distance \in Nat /\ flight.distance <= CEILING /\ flight.gasoline \in Nat
  BY <1>1, FlightsAssumption, BoundsAssumption DEF SimulatorInit
<1>4. TOP \in Nat /\ CEILING \in Nat
  BY BoundsAssumption
<1> QED
  BY <1>1, <1>2, <1>3, <1>4 DEF SimulatorInit, DataType

LEMMA FuelFact == ASSUME NEW g \in Int PROVE Fuel(g) \in Int /\ Fuel(g) >= 0
  BY InstrumentsAssumption DEF Fuel

LEMMA DataSimulator == ASSUME DataType, SimulatorStep PROVE DataType'
<1>0. /\ SimulatorNext /\ pc' = pc /\ loaded' = loaded /\ climb' = climb
      /\ CEILING \in Nat /\ Angles \subseteq Int /\ Codes \subseteq Int
  BY BoundsAssumption, InstrumentsAssumption DEF SimulatorStep, locks
<1>1. CASE Descend
  BY <1>0, <1>1 DEF Descend, DataType, instruments
<1>2. CASE Sink
  BY <1>0, <1>2 DEF Sink, DataType
<1>3. CASE BurnFuel
  <2>1. gasoline' \in Int /\ gasoline' >= -1
    BY <1>3, FuelFact DEF BurnFuel, DataType
  <2> QED
    BY <1>0, <1>3, <2>1 DEF BurnFuel, DataType
<1>4. CASE TypeAlarm \/ sig_handlerINT
  <2>1. alarma' \in Int
    BY <1>0, <1>4 DEF TypeAlarm, sig_handlerINT
  <2> QED
    BY <1>0, <1>4, <2>1 DEF TypeAlarm, sig_handlerINT, DataType
<1>5. ASSUME NEW i \in Gyros, TypeAngle(i) PROVE DataType'
  <2>1. gyros' \in [Gyros -> Int]
    BY <1>0, <1>5 DEF TypeAngle, DataType
  <2> QED
    BY <1>0, <1>5, <2>1 DEF TypeAngle, DataType
<1>6. CASE Exit
  BY <1>0, <1>6 DEF Exit, DataType, instruments
<1> QED
  BY <1>0, <1>1, <1>2, <1>3, <1>4, <1>5, <1>6 DEF SimulatorNext

\* Only go_up_30m comes to the store of a distance it has loaded.
LEMMA DataSame ==
  ASSUME ControlType, DataType, Next,
         ~LoadDistance, UNCHANGED <<instruments, simulator, loaded, climb>>
  PROVE  DataType'
<1>1. pc'[GU] = "climb" => pc[GU] = "climb"
  <2>1. CASE go_up_30m
    <3>1. GU \in Threads /\ RL \in Threads /\ GU # RL
      BY Classes, SinglesDistinct DEF Singles
    <3>2. CASE StoreDistance
      BY <3>1, <3>2, LoopFact DEF StoreDistance, Go, ControlType
    <3>3. CASE EndClimb
      BY <3>1, <3>3, CreateFacts, LocationNames DEF EndClimb, Singles
    <3>4. CASE WakeRestarter
      BY <3>1, <3>4, SignalFacts DEF WakeRestarter
    <3> QED
      BY <2>1, <3>2, <3>3, <3>4 DEF go_up_30m
  <2>2. CASE Still(GU) \/ Woken(GU)
    BY <2>2, LoopFact DEF Still, Woken
  <2> QED
    BY <2>1, <2>2, Bystanders
<1> QED
  BY <1>1 DEF DataType, instruments, simulator

LEMMA DataNext == ControlType /\ DataType /\ [Next]_vars => DataType'
<1> SUFFICES ASSUME ControlType, DataType, [Next]_vars PROVE DataType'
  OBVIOUS
<1> DEFINE Same == UNCHANGED <<instruments, simulator, loaded, climb>>
<1>0. TOP \in Nat /\ CEILING \in Nat /\ TOP < CEILING /\ GU # EX /\ GU \in Threads /\ EX \in Threads
  BY BoundsAssumption, SinglesDistinct, Classes DEF Singles
<1>1. CASE SimulatorStep
  BY <1>1, DataSimulator
<1>2. CASE UNCHANGED vars
  BY <1>2 DEF vars, instruments, simulator, locks, DataType
<1>3. ASSUME NEW t \in Threads \ {GU}, NEW l, TakeGas(t, l) PROVE DataType'
  <2>1. pc'[GU] = pc[GU]
    BY <1>0, <1>3 DEF TakeGas, Go, ControlType
  <2>2. loaded' = gasoline /\ UNCHANGED <<instruments, simulator, climb>>
    BY <1>3 DEF TakeGas
  <2> QED
    BY <2>1, <2>2 DEF DataType, instruments, simulator
<1>4. ASSUME NEW i \in Gyros, NEW k, GT(i, k) # GU, Correct(i, k) PROVE DataType'
  <2>1. gasoline' \in Int /\ gasoline' >= -1
    BY <1>4, FuelFact DEF Correct, DataType
  <2>2. gyros' \in [Gyros -> Int]
    BY <1>4 DEF Correct, DataType
  <2>3. pc'[GU] = pc[GU]
    BY <1>0, <1>4 DEF Correct, Go, ControlType
  <2> QED
    BY <1>4, <2>1, <2>2, <2>3 DEF Correct, DataType, simulator
<1>5. ASSUME NEW k, PE(k) # GU, Refill(k) PROVE DataType'
  <2>1. gasoline' \in Int /\ gasoline' >= -1
    BY <1>5 DEF Refill, DataType
  <2>2. pc'[GU] = pc[GU]
    BY <1>0, <1>5 DEF Refill, Go, ControlType
  <2> QED
    BY <1>5, <2>1, <2>2 DEF Refill, DataType, simulator
<1>6. CASE LoadDistance
  BY <1>0, <1>6 DEF LoadDistance, DataType, locks, instruments, simulator
<1>7. CASE StoreDistance
  <2>1. pc[GU] = "climb" /\ distance' = climb + 2 /\ climb' = 0
    BY <1>7 DEF StoreDistance, At
  <2>2. distance' \in 0..CEILING
    BY <1>0, <2>1 DEF DataType
  <2>3. pc'[GU] # "climb"
    BY <1>0, <1>7, LoopFact DEF StoreDistance, Go, ControlType
  <2> QED
    BY <1>0, <1>7, <2>1, <2>2, <2>3 DEF StoreDistance, DataType, locks, simulator
<1>8. CASE TakeGasToClimb
  <2>1. pc'[GU] = pc[GU]
    BY <1>0, <1>8 DEF TakeGasToClimb, Go, ControlType
  <2>2. loaded' \in {loaded, distance}
    BY <1>8 DEF TakeGasToClimb
  <2> QED
    BY <1>8, <2>1, <2>2 DEF TakeGasToClimb, DataType, instruments, simulator
<1>9. CASE Compensate
  <2>1. pc'[GU] = pc[GU]
    BY <1>0, <1>9 DEF Compensate, Go, ControlType
  <2>2. distance' \in 0..CEILING
    BY <1>0, <1>9 DEF Compensate, DataType
  <2> QED
    BY <1>9, <2>1, <2>2 DEF Compensate, DataType, simulator
<1> USE DEF instruments, simulator, locks
<1>10. ASSUME NEW p \in Pairs, signal_gyro(p[1], p[2]) \/ gyroscope_thread(p[1], p[2])
       PROVE  Same \/ DataType'
  <2>1. p[1] \in Gyros /\ GT(p[1], p[2]) \in Threads \ {GU}
    BY Names, Classes DEF Pairs, Singles
  <2>2. CASE signal_gyro(p[1], p[2])
    BY <2>2 DEF signal_gyro, locks
  <2>3. CASE Look(p[1], p[2]) \/ WakeSignalGyro(p[1], p[2])
    BY <2>3 DEF Look, WakeSignalGyro, locks
  <2> QED
    BY <1>3, <1>4, <1>10, <2>1, <2>2, <2>3 DEF gyroscope_thread
<1>11. ASSUME NEW k \in 1..Engines, pricipal_engine_thread(k) PROVE Same \/ DataType'
  <2>1. PE(k) \in Threads \ {GU}
    BY Names, Classes DEF Singles
  <2>2. CASE TakeGyros(k)
    BY <2>2 DEF TakeGyros
  <2> QED
    BY <1>3, <1>5, <1>11, <2>1, <2>2 DEF pricipal_engine_thread
<1>12. Main \/ signal_restart_landing \/ signal_landing_check \/ signal_explote_rocket => Same
  <2>1. Main => Same
    BY DEF Main, locks
  <2>2. signal_restart_landing => Same
    BY DEF signal_restart_landing, locks
  <2>3. signal_landing_check => Same
    BY DEF signal_landing_check, DeclareLanding, CutEngine, GoOnLanding, locks
  <2>4. signal_explote_rocket => Same
    BY DEF signal_explote_rocket, locks
  <2> QED
    BY <2>1, <2>2, <2>3, <2>4
<1>13. sig_handler_manual => Same
  BY DEF sig_handler_manual, ReadAlarm, RestartEngine, restart_thrusters, SeeAlarm, locks
<1>14. go_up_30m \/ go_up_explode => Same \/ DataType'
  <2>1. EndClimb \/ WakeRestarter \/ Explode => Same
    BY DEF EndClimb, WakeRestarter, Explode, locks
  <2> QED
    BY <1>6, <1>7, <1>8, <1>9, <2>1 DEF go_up_30m, go_up_explode
<1>15. ASSUME NEW t \in Threads, Pause(t) \/ Cancelled(t) \/ Leave(t) PROVE Same
  BY <1>15 DEF Pause, Cancelled, Leave, locks
<1>16. Next /\ Same => DataType'
  BY <1>6, DataSame
<1> QED
  BY <1>1, <1>2, <1>10, <1>11, <1>12, <1>13, <1>14, <1>15, <1>16 DEF Next

\* pc and data keep their types, kept apart because most steps change one only.
THEOREM Types == Spec => [](ControlType /\ DataType)
<1>1. Init => ControlType /\ DataType
  BY ControlInit, DataInit
<1>2. ControlType /\ DataType /\ [Next]_vars => (ControlType /\ DataType)'
  BY ControlNext, DataNext
<1> QED
  BY <1>1, <1>2, PTL DEF Spec

\* Every variable has its type; the rocket never gets below the meter it sinks
\* into the ground, however the stores of simulator_2 and of the two climbs,
\* none of them under a lock, fall between one another's loads.
THEOREM TypeCorrect == Spec => []TypeOK
<1>1. ControlType /\ DataType => TypeOK
  BY DEF ControlType, DataType, TypeOK
<1> QED
  BY <1>1, Types, PTL

-----------------------------------------------------------------------------
(* The alarm that sig_handler_manual takes for seen.                       *)

Answering ==
  {"stop", "stop and thrusters", "engine", "engine and thrusters", "thrusters", "create", "seen"}

\* While sig_handler_manual answers an alarm, a 104 in memory is a later one.
AlarmInv ==
  /\ AlarmSwallowed
  /\ pc[MA] \in Answering /\ alarma = 104 => "alarm" \in raced

LEMMA AlarmInit == Init => AlarmInv
  BY DEF Init, SimulatorInit, AlarmInv, AlarmSwallowed

LEMMA AlarmNext == ControlType /\ AlarmInv /\ [Next]_vars => AlarmInv'
<1> SUFFICES ASSUME ControlType, AlarmInv, [Next]_vars PROVE AlarmInv'
  OBVIOUS
<1> USE DEF AlarmInv, AlarmSwallowed
<1>1. CASE UNCHANGED vars
  BY <1>1 DEF vars, instruments, flags
<1>2. CASE SimulatorStep
  <2>1. /\ raced \subseteq raced' /\ (alarma' # alarma /\ pc[MA] # "top" => "alarm" \in raced')
        /\ pc' = pc /\ last_alamra' = last_alamra
    BY <1>2 DEF SimulatorStep, flags
  <2>2. pc[MA] \in Answering => pc[MA] # "top"
    BY DEF Answering
  <2> QED
    BY <2>1, <2>2
<1>3. CASE sig_handler_manual
  <2>1. alarma' = alarma /\ MA \in Threads
    BY <1>3, Classes
    DEF sig_handler_manual, ReadAlarm, RestartEngine, restart_thrusters, SeeAlarm, instruments, Singles
  <2>2. CASE ReadAlarm
    <3>1. raced' = raced /\ last_alamra' = last_alamra
      BY <2>2 DEF ReadAlarm
    <3>2. pc'[MA] \in {Branch, Loop}
      BY <2>1, <2>2 DEF ReadAlarm, Go, ControlType
    <3>3. alarma = 104 => Branch = "dead"
      BY DEF Branch
    <3> QED
      BY <2>1, <3>1, <3>2, <3>3, LoopFact DEF Answering
  <2>3. CASE RestartEngine \/ restart_thrusters
    <3>1. pc[MA] \in Answering /\ last_alamra' = last_alamra /\ raced \subseteq raced'
      BY <2>3 DEF RestartEngine, restart_thrusters, Answering, flags
    <3> QED
      BY <2>1, <3>1
  <2>4. CASE SeeAlarm
    <3>1. pc[MA] \in Answering /\ last_alamra' = alarma /\ raced' = raced
      BY <2>4 DEF SeeAlarm, Answering
    <3> QED
      BY <2>1, <3>1
  <2> QED
    BY <1>3, <2>2, <2>3, <2>4 DEF sig_handler_manual
<1>4. CASE Next /\ ~SimulatorStep /\ ~sig_handler_manual
  <2>1. alarma' = alarma /\ last_alamra' = last_alamra /\ raced \subseteq raced'
    BY <1>4, Writers
  <2>2. Still(MA)
    BY <1>4, Bystanders
  <2>3. pc'[MA] \in Answering => pc'[MA] = pc[MA]
    BY <2>2 DEF Still, Answering
  <2> QED
    BY <2>1, <2>3
<1> QED
  BY <1>1, <1>2, <1>3, <1>4

\* Alarm 104 is lost only to the window in which last_alamra = *alarma reads
\* an alarm that the branches above it have not seen.
THEOREM AlarmNotSwallowed == Spec => []AlarmSwallowed
<1>1. Init => AlarmInv
  BY AlarmInit
<1>2. ControlType /\ AlarmInv /\ [Next]_vars => AlarmInv'
  BY AlarmNext
<1>3. AlarmInv => AlarmSwallowed
  BY DEF AlarmInv
<1> QED
  BY <1>1, <1>2, <1>3, Types, PTL DEF Spec

-----------------------------------------------------------------------------
(* The engines, the one that is parked and the ones that are replaced.     *)

Restarting == {"engine", "engine and thrusters"}

\* The engines still to be created are nowhere.
Unborn == \A k \in 1..Engines : k > engine => pc[PE(k)] = "dead" /\ PE(k) \notin parked

FlagInv ==
  /\ EngineFlag
  /\ pc[LC] = "stop" /\ princp_engine = 1 => "cut" \in raced

OldInv ==
  /\ OldEngineParked
  /\ pc[MA] \in Restarting =>
       pc[PE(engine)] = "dead" \/ PE(engine) \in parked \/ "restart" \in raced

EngineInv == Unborn /\ FlagInv /\ OldInv

LEMMA WindowFacts ==
  /\ pc[LC] = "stop" => "cut" \in Windows
  /\ pc[MA] \in Restarting => "restart" \in Windows
  BY DEF Windows, Restarting

\* Only the current engine is ever stopped.
LEMMA Parks ==
  ASSUME ControlType, Next
  PROVE  parked' \subseteq parked \cup {PE(engine)}
<1>1. CASE signal_landing_check
  BY <1>1, StopFacts DEF signal_landing_check, DeclareLanding, CutEngine, GoOnLanding
<1>2. CASE sig_handler_manual
  BY <1>2, StopFacts
  DEF sig_handler_manual, ReadAlarm, RestartEngine, restart_thrusters, SeeAlarm
<1> QED
  BY <1>1, <1>2, Writers

\* An engine leaves its pause() by SIGCONT, which manage_principal_engine(0) sends
\* to the current one, or to end.
LEMMA Unparks ==
  ASSUME ControlType, Next, NEW k \in 1..Engines, PE(k) \in parked, PE(k) \notin parked'
  PROVE  pc'[PE(k)] = "dead" \/ (k = engine /\ Windows \subseteq raced')
<1>0. PE(k) \in Threads /\ PE(k) # EX /\ (PE(k) = PE(engine) => k = engine)
  BY Names, Classes, Distinct DEF Singles
<1>1. CASE WakeEngine
  BY <1>0, <1>1 DEF WakeEngine
<1>2. CASE Explode
  <2>1. Cancellable(PE(k)) /\ PE(k) = PE(engine)
    BY <1>2 DEF Explode, Cancellable
  <2>2. Cancel({PE(engine), MAIN}, EX, "dead")
    BY <1>2 DEF Explode
  <2> QED
    BY <1>0, <2>1, <2>2 DEF Cancel
<1>3. ASSUME NEW t \in Threads, Cancelled(t) PROVE pc'[PE(k)] = "dead"
  BY <1>0, <1>3 DEF Cancelled, Go, ControlType
<1>4. ASSUME NEW t \in Threads, Pause(t) \/ Leave(t) PROVE FALSE
  BY <1>4 DEF Pause, Leave
<1>5. CASE SimulatorStep \/ Main
  BY <1>5 DEF SimulatorStep, Main
<1>6. ASSUME NEW i, NEW j, signal_gyro(i, j) \/ gyroscope_thread(i, j) PROVE FALSE
  BY <1>6 DEF signal_gyro, gyroscope_thread, Look, TakeGas, Correct, WakeSignalGyro
<1>7. ASSUME NEW j, pricipal_engine_thread(j) PROVE FALSE
  BY <1>7 DEF pricipal_engine_thread, TakeGyros, TakeGas, Refill
<1>8. CASE signal_restart_landing \/ signal_explote_rocket
  BY <1>1, <1>8 DEF signal_restart_landing, signal_explote_rocket
<1>9. CASE go_up_30m
  BY <1>9 DEF go_up_30m, LoadDistance, StoreDistance, EndClimb, WakeRestarter
<1>10. CASE signal_landing_check
  BY <1>10, StopFacts DEF signal_landing_check, DeclareLanding, CutEngine, GoOnLanding
<1>11. CASE go_up_explode
  BY <1>2, <1>11 DEF go_up_explode, TakeGasToClimb, Compensate
<1>12. CASE sig_handler_manual
  BY <1>12, StopFacts
  DEF sig_handler_manual, ReadAlarm, RestartEngine, restart_thrusters, SeeAlarm
<1> QED
  BY <1>3, <1>4, <1>5, <1>6, <1>7, <1>8, <1>9, <1>10, <1>11, <1>12 DEF Next

LEMMA EngineInit == Init => EngineInv
<1> SUFFICES ASSUME Init PROVE EngineInv
  OBVIOUS
<1>1. engine = 1 /\ parked = {}
  BY DEF Init
<1>2. pc[MA] \in {"asleep", "top", "dead"} /\ pc[LC] \in {"asleep", "top", "dead"}
  <2>1. MA \in Threads /\ LC \in Threads
    BY Classes DEF Singles
  <2>2. \A t \in Threads : pc[t] \in {"asleep", "top", "dead"}
    BY DEF Init
  <2> QED
    BY <2>1, <2>2
<1>3. ASSUME NEW k \in 1..Engines, k # 1 PROVE pc[PE(k)] = "dead"
  <2>1. PE(k) \in Threads \ ({PE(1)} \cup Singles \cup GyroThreads \cup SignalGyros)
    BY <1>3, Names, Classes, Distinct
  <2>2. PE(k) \notin {PE(1), RL, SE, LC, MA, MAIN} /\ PE(k) # GU
    BY <2>1 DEF Singles
  <2> QED
    BY <2>1, <2>2 DEF Init
<1>4. Unborn /\ OldEngineParked
  BY <1>1, <1>3 DEF Unborn, OldEngineParked
<1> QED
  BY <1>1, <1>2, <1>4 DEF EngineInv, FlagInv, OldInv, EngineFlag, Restarting

\* What sig_handler_manual does to the engines when it replaces one.
LEMMA Replace ==
  ASSUME ControlType, RestartEngine, pc[MA] \in Restarting
  PROVE  /\ engine' = engine + 1 /\ parked' = parked /\ princp_engine' = 1
         /\ raced \subseteq raced' /\ ("cut" \in Windows => "cut" \in raced')
         /\ pc'[MA] \notin Restarting
         /\ \A k \in 1..Engines : k # engine + 1 => pc'[PE(k)] = pc[PE(k)]
         /\ pc'[LC] = pc[LC]
<1>1. /\ engine' = engine + 1 /\ parked' = parked /\ princp_engine' = 1
      /\ raced' = raced \cup (Windows \ {"restart"})
      /\ pc' = [pc EXCEPT ![PE(engine + 1)] = Loop,
                          ![MA] = IF @ = "engine" THEN "seen" ELSE "thrusters"]
  BY DEF RestartEngine, Restarting
<1>2. MA \in Threads /\ LC \in Threads /\ LC # MA /\ \A k : PE(k) \notin {MA, LC}
  BY Classes, Distinct, SinglesDistinct DEF Singles
<1>3. pc'[MA] \in {"seen", "thrusters"} /\ pc'[LC] = pc[LC]
  BY <1>1, <1>2 DEF ControlType
<1>4. ASSUME NEW k \in 1..Engines, k # engine + 1 PROVE pc'[PE(k)] = pc[PE(k)]
  <2>1. PE(k) # PE(engine + 1) /\ PE(k) # MA /\ PE(k) \in Threads
    BY <1>2, <1>4, Distinct, Names, Classes
  <2> QED
    BY <1>1, <2>1 DEF ControlType
<1> QED
  BY <1>1, <1>3, <1>4 DEF Restarting

LEMMA UnbornNext == ASSUME ControlType, EngineInv, Next PROVE Unborn'
<1> SUFFICES ASSUME NEW k \in 1..Engines, k > engine'
             PROVE  pc'[PE(k)] = "dead" /\ PE(k) \notin parked'
  BY DEF Unborn
<1>1. engine \in Int /\ (engine' = engine \/ engine' = engine + 1)
  <2>1. sig_handler_manual => engine' = engine \/ engine' = engine + 1
    BY DEF sig_handler_manual, ReadAlarm, RestartEngine, restart_thrusters, SeeAlarm, arrays
  <2>2. engine \in Int
    <3>1. engine \in 1..Engines
      BY DEF ControlType
    <3> QED
      BY <3>1, EnginesNat
  <2> QED
    BY <2>1, <2>2, Writers
<1>2. k > engine /\ k # engine /\ k # engine'
  BY <1>1
<1>3. pc[PE(k)] = "dead" /\ PE(k) \notin parked
  BY <1>2 DEF EngineInv, Unborn
<1>4. PE(k) \notin parked'
  BY <1>2, <1>3, Parks, Distinct
<1>5. ~pricipal_engine_thread(k)
  BY <1>3 DEF pricipal_engine_thread, TakeGyros, TakeGas, Refill, At
<1>6. Still(PE(k))
  BY <1>2, <1>5, Bystanders
<1> QED
  BY <1>3, <1>4, <1>6 DEF Still

LEMMA FlagNext == ASSUME ControlType, EngineInv, Next PROVE FlagInv'
<1> USE DEF FlagInv, EngineFlag
<1>0. FlagInv /\ LC \in Threads /\ raced \subseteq raced'
  BY Classes, Writers DEF EngineInv, Singles
<1>1. CASE signal_landing_check
  <2>1. engine' = engine /\ raced' = raced
    BY <1>1 DEF signal_landing_check, DeclareLanding, CutEngine, GoOnLanding, arrays
  <2>2. CASE DeclareLanding
    <3>1. parked' = parked /\ princp_engine' = princp_engine
      BY <2>2 DEF DeclareLanding, flags
    <3>2. pc'[LC] \in {"landed", "dead"}
      BY <1>0, <2>2 DEF DeclareLanding, Go, Cancel, ControlType
    <3> QED
      BY <1>0, <2>1, <3>1, <3>2
  <2>3. CASE CutEngine /\ princp_engine' = 0
    BY <2>3
  <2>4. CASE CutEngine /\ princp_engine' # 0
    <3>1. /\ pc[LC] = "stop" /\ Go(LC, Loop) /\ princp_engine' = princp_engine
      BY <2>4 DEF CutEngine, At, flags
    <3>2. pc'[LC] # "stop"
      BY <1>0, <3>1, LoopFact DEF Go, ControlType
    <3> QED
      BY <1>0, <2>1, <3>1, <3>2
  <2>5. CASE GoOnLanding
    <3>1. parked' = parked /\ princp_engine' = princp_engine /\ Go(LC, Loop)
      BY <2>5 DEF GoOnLanding, flags
    <3>2. pc'[LC] # "stop"
      BY <1>0, <3>1, LoopFact DEF Go, ControlType
    <3> QED
      BY <1>0, <2>1, <3>1, <3>2
  <2> QED
    BY <1>1, <2>2, <2>3, <2>4, <2>5 DEF signal_landing_check
<1>2. CASE Next /\ ~signal_landing_check
  <2>0. Still(LC)
    BY <1>2, Bystanders
  <2>1. pc'[LC] = "stop" => pc[LC] = "stop"
    BY <2>0 DEF Still
  <2>2. CASE sig_handler_manual
    <3>1. CASE RestartEngine /\ pc[MA] \in {"stop", "stop and thrusters"}
      <4>1. princp_engine' = 0
        BY <3>1 DEF RestartEngine
      <4> QED
        BY <4>1
    <3>2. CASE RestartEngine /\ pc[MA] \in Restarting
      <4>1. PE(engine + 1) \notin parked
        <5>1. engine + 1 \in 1..Engines /\ engine + 1 > engine
          <6>1. engine \in 1..Engines /\ engine < Engines
            BY <3>2 DEF ControlType, Restarting
          <6> QED
            BY <6>1, EnginesNat
        <5> QED
          BY <5>1 DEF EngineInv, Unborn
      <4> QED
        BY <1>0, <2>1, <3>2, <4>1, Replace, WindowFacts
    <3>3. CASE ReadAlarm \/ restart_thrusters \/ SeeAlarm
      <4>1. parked' = parked /\ princp_engine' = princp_engine /\ engine' = engine
        BY <3>3 DEF ReadAlarm, restart_thrusters, SeeAlarm, flags, arrays
      <4> QED
        BY <1>0, <2>1, <4>1
    <3> QED
      BY <2>2, <3>1, <3>2, <3>3 DEF sig_handler_manual, RestartEngine, Restarting
  <2>3. CASE ~sig_handler_manual
    <3>1. engine' = engine /\ parked' \subseteq parked
      BY <1>2, <2>3, Writers
    <3>2. CASE WakeEngine /\ princp_engine = 0
      <4>1. PE(engine) \notin parked' /\ raced' = raced \cup Windows
        BY <3>2 DEF WakeEngine
      <4> QED
        BY <2>1, <3>1, <4>1, WindowFacts
    <3>3. CASE princp_engine' = princp_engine
      BY <1>0, <2>1, <3>1, <3>3
    <3>4. SimulatorStep => princp_engine' = princp_engine
      BY DEF SimulatorStep, flags
    <3>5. WakeEngine /\ princp_engine # 0 => princp_engine' = princp_engine
      BY DEF WakeEngine
    <3> QED
      BY <1>2, <2>3, <3>2, <3>3, <3>4, <3>5, Writers
  <2> QED
    BY <2>2, <2>3
<1> QED
  BY <1>1, <1>2

LEMMA OldNext == ASSUME ControlType, EngineInv, Next PROVE OldInv'
<1>0. OldInv /\ MA \in Threads /\ raced \subseteq raced' /\ \A k \in 1..Engines : PE(k) \in Threads
  BY Classes, Names, Writers DEF EngineInv, Singles
<1>1. CASE RestartEngine /\ pc[MA] \in Restarting
  <2>1. /\ engine' = engine + 1 /\ parked' = parked /\ pc'[MA] \notin Restarting
        /\ \A k \in 1..Engines : k # engine + 1 => pc'[PE(k)] = pc[PE(k)]
    BY <1>1, Replace
  <2>2. OldEngineParked'
    <3> SUFFICES ASSUME NEW k \in 1..Engines, pc'[PE(k)] # "dead", k # engine'
                 PROVE  PE(k) \in parked' \/ "restart" \in raced'
      BY DEF OldEngineParked
    <3>1. pc[PE(k)] # "dead"
      BY <2>1
    <3> QED
      BY <1>0, <1>1, <2>1, <3>1 DEF OldInv, OldEngineParked
  <2> QED
    BY <2>1, <2>2 DEF OldInv
<1>2. CASE RestartEngine /\ pc[MA] \in {"stop", "stop and thrusters"}
  <2>1. /\ StopEngine /\ engine' = engine
        /\ Go(MA, IF pc[MA] = "stop" THEN "engine" ELSE "engine and thrusters")
    BY <1>2 DEF RestartEngine, Restarting, arrays
  <2>2. \A k \in 1..Engines : pc'[PE(k)] = pc[PE(k)]
    <3>1. \A k \in 1..Engines : PE(k) # MA
      BY Distinct DEF Singles
    <3> QED
      BY <1>0, <2>1, <3>1 DEF Go, ControlType
  <2>3. engine \in 1..Engines
    BY DEF ControlType
  <2> QED
    BY <1>0, <2>1, <2>2, <2>3, StopFacts DEF OldInv, OldEngineParked
<1>3. CASE ~RestartEngine
  <2>1. engine' = engine
    <3>1. sig_handler_manual => engine' = engine
      BY <1>3 DEF sig_handler_manual, ReadAlarm, restart_thrusters, SeeAlarm, arrays
    <3> QED
      BY <3>1, Writers
  <2>2. engine \in 1..Engines /\ engine # engine + 1
    <3>1. engine \in 1..Engines
      BY DEF ControlType
    <3> QED
      BY <3>1, EnginesNat
  <2>3. ASSUME NEW k \in 1..Engines, pc'[PE(k)] # "dead" PROVE pc[PE(k)] # "dead"
    <3>1. CASE pricipal_engine_thread(k)
      BY <3>1 DEF pricipal_engine_thread, TakeGyros, TakeGas, Refill, At
    <3>2. CASE Still(PE(k))
      BY <2>3, <3>2 DEF Still
    <3>3. ~(k = engine + 1 /\ engine' = k)
      BY <2>1, <2>2
    <3> QED
      BY <3>1, <3>2, <3>3, Bystanders
  <2>4. pc'[MA] \in Restarting => pc[MA] \in Restarting
    <3>1. CASE sig_handler_manual
      <4>1. CASE ReadAlarm \/ SeeAlarm
        <5>1. pc'[MA] \in {Branch, Loop}
          BY <1>0, <4>1 DEF ReadAlarm, SeeAlarm, Go, ControlType
        <5>2. Branch \notin Restarting
          BY DEF Branch, Restarting
        <5> QED
          BY <5>1, <5>2, LoopFact DEF Restarting
      <4>2. CASE restart_thrusters
        <5>1. Cancel(terminate_event_1, MA, "create") \/ create_signals_gyros(MA, "seen")
          BY <4>2 DEF restart_thrusters
        <5>2. pc'[MA] \in {"create", "seen"}
          BY <1>0, <5>1 DEF Cancel, create_signals_gyros
        <5> QED
          BY <5>2 DEF Restarting
      <4> QED
        BY <1>3, <3>1, <4>1, <4>2 DEF sig_handler_manual
    <3>2. CASE Still(MA)
      BY <3>2 DEF Still, Restarting
    <3> QED
      BY <3>1, <3>2, Bystanders
  <2>5. ASSUME NEW k \in 1..Engines, PE(k) \in parked, k # engine
        PROVE  PE(k) \in parked' \/ pc'[PE(k)] = "dead"
    BY <2>5, Unparks
  <2>6. ASSUME PE(engine) \in parked, pc[MA] \in Restarting
        PROVE  PE(engine) \in parked' \/ pc'[PE(engine)] = "dead" \/ "restart" \in raced'
    BY <2>2, <2>6, Unparks, WindowFacts
  <2>7. OldEngineParked'
    BY <1>0, <2>1, <2>3, <2>5 DEF OldInv, OldEngineParked
  <2> QED
    BY <1>0, <2>1, <2>2, <2>3, <2>4, <2>6, <2>7 DEF OldInv
<1> QED
  BY <1>1, <1>2, <1>3 DEF RestartEngine, Restarting

LEMMA EngineNext == ControlType /\ EngineInv /\ [Next]_vars => EngineInv'
<1> SUFFICES ASSUME ControlType, EngineInv, [Next]_vars PROVE EngineInv'
  OBVIOUS
<1>1. CASE Next
  BY <1>1, UnbornNext, FlagNext, OldNext DEF EngineInv
<1>2. CASE UNCHANGED vars
  BY <1>2 DEF vars, flags, arrays, EngineInv, Unborn, FlagInv, OldInv, EngineFlag, OldEngineParked
<1> QED
  BY <1>1, <1>2

LEMMA EngineInvariant == Spec => []EngineInv
<1>1. Init => EngineInv
  BY EngineInit
<1>2. ControlType /\ EngineInv /\ [Next]_vars => EngineInv'
  BY EngineNext
<1> QED
  BY <1>1, <1>2, Types, PTL DEF Spec

\* The engine that is flying is parked with nobody to wake it only through the
\* window between princp_engine = 0 and the SIGTSTP of signal_landing_check.
THEOREM EngineFlagKept == Spec => []EngineFlag
<1>1. EngineInv => EngineFlag
  BY DEF EngineInv, FlagInv
<1> QED
  BY <1>1, EngineInvariant, PTL

\* Two engines run at once only through the window between the SIGTSTP of
\* manage_principal_engine(1) and the new engine.
THEOREM OldEnginesParked == Spec => []OldEngineParked
<1>1. EngineInv => OldEngineParked
  BY DEF EngineInv, OldInv
<1> QED
  BY <1>1, EngineInvariant, PTL

-----------------------------------------------------------------------------
(* sem_gas and its holder.                                                 *)

Critical == {"burn", "store", "post"}

\* Who holds sem_gas is where it is posted from, go_up_explode apart; an engine
\* is cancelled only by go_up_explode at its end, when it has sem_gas for good,
\* and go_up_explode exists once signal_explote_rocket has ended.
GasInv ==
  /\ \A t \in Threads \ {EX} : pc[t] \in Critical <=> sem_gas = t
  /\ pc[EX] \in {"climb", "explode"} => sem_gas = EX
  /\ \A t \in EngineThreads : t \in cancelled => sem_gas = EX /\ pc[EX] = "dead"
  /\ pc[EX] # "dead" \/ sem_gas = EX => pc[SE] = "dead"

\* A step in which nobody comes to where sem_gas is held, or leaves it.
Calm == \A t \in Threads \ {EX} : pc'[t] \in Critical <=> pc[t] \in Critical

LEMMA LoopCalm == Loop \notin Critical
  BY LoopFact DEF Critical

LEMMA GoCalm ==
  ASSUME ControlType, NEW t, NEW l, Go(t, l), t = EX \/ pc[t] \notin Critical, t = EX \/ l \notin Critical
  PROVE  Calm
  BY DEF Go, ControlType, Calm

LEMMA SignalCalm ==
  ASSUME ControlType, NEW u \in Threads, NEW t \in Threads, u # t, SignalAndPause(u, t),
         pc[u] \notin Critical
  PROVE  Calm
<1>1. "asleep" \notin Critical /\ "pause" \notin Critical
  BY DEF Critical
<1> QED
  BY <1>1, SignalFacts, LoopCalm DEF Calm

LEMMA CancelCalm ==
  ASSUME ControlType, NEW T \in SUBSET Threads, T \cap EngineThreads = {},
         NEW u \in Threads, pc[u] \notin Critical, NEW l, l \notin Critical, Cancel(T, u, l)
  PROVE  Calm
<1>1. pc' = [t \in Threads |->
               IF t = u THEN l ELSE IF t \in T /\ Cancellable(t) THEN "dead" ELSE pc[t]]
  BY DEF Cancel
<1>2. ASSUME NEW t \in T, Cancellable(t) PROVE pc[t] \notin Critical
  <2>1. pc[t] \in CancellationPoints
    BY <1>2 DEF Cancellable, ControlType
  <2> QED
    BY <2>1 DEF CancellationPoints, Critical
<1>3. "dead" \notin Critical
  BY DEF Critical
<1> QED
  BY <1>1, <1>2, <1>3 DEF Calm

LEMMA CreateCalm ==
  ASSUME ControlType, NEW u \in Singles, NEW l \in Locations, create_signals_gyros(u, l),
         pc[u] \notin Critical, l \notin Critical
  PROVE  Calm
<1>1. /\ pc' = [t \in Threads |->
                  IF t = u THEN l
                  ELSE IF t \notin NewPairs THEN pc[t]
                  ELSE IF t \in SignalGyros THEN Loop ELSE "pause"]
  BY DEF create_signals_gyros, NewPairs
<1>2. \A t \in NewPairs : pc[t] = "dead"
  BY CreateFacts
<1>3. "dead" \notin Critical /\ "pause" \notin Critical
  BY DEF Critical
<1> QED
  BY <1>1, <1>2, <1>3, LoopCalm DEF Calm

\* The threads a step may ask to end.
LEMMA Cancels ==
  ASSUME ControlType, Next
  PROVE  \/ cancelled' \subseteq cancelled \cup CurrentPairs \cup {GU, RL, SE, MAIN}
         \/ Explode /\ cancelled' \subseteq cancelled \cup {PE(engine), MAIN}
<1>1. ASSUME NEW T, NEW u, NEW l, Cancel(T, u, l) PROVE cancelled' \subseteq cancelled \cup T
  BY <1>1 DEF Cancel
<1>2. ASSUME NEW u, NEW l, create_signals_gyros(u, l) PROVE cancelled' \subseteq cancelled
  BY <1>2 DEF create_signals_gyros
<1>3. CASE SimulatorStep \/ Main
  BY <1>3 DEF SimulatorStep, Main
<1>4. ASSUME NEW i, NEW k, signal_gyro(i, k) \/ gyroscope_thread(i, k) PROVE cancelled' = cancelled
  BY <1>4 DEF signal_gyro, gyroscope_thread, Look, TakeGas, Correct, WakeSignalGyro
<1>5. ASSUME NEW k, pricipal_engine_thread(k) PROVE cancelled' = cancelled
  BY <1>5 DEF pricipal_engine_thread, TakeGyros, TakeGas, Refill
<1>6. CASE signal_restart_landing
  BY <1>1, <1>6, Targets DEF signal_restart_landing
<1>7. CASE go_up_30m
  BY <1>2, <1>7 DEF go_up_30m, LoadDistance, StoreDistance, EndClimb, WakeRestarter
<1>8. CASE signal_landing_check
  <2>1. DeclareLanding => cancelled' \subseteq cancelled \cup {GU, RL, SE, MAIN}
    BY <1>1, Targets DEF DeclareLanding
  <2>2. CutEngine \/ GoOnLanding => cancelled' \subseteq cancelled \cup CurrentPairs
    BY <1>1, Targets DEF CutEngine, GoOnLanding
  <2> QED
    BY <1>8, <2>1, <2>2 DEF signal_landing_check
<1>9. CASE signal_explote_rocket
  BY <1>1, <1>9, Targets DEF signal_explote_rocket
<1>10. CASE go_up_explode
  BY <1>1, <1>10 DEF go_up_explode, TakeGasToClimb, Compensate, Explode
<1>11. CASE sig_handler_manual
  BY <1>1, <1>2, <1>11, Targets
  DEF sig_handler_manual, ReadAlarm, RestartEngine, restart_thrusters, SeeAlarm
<1>12. ASSUME NEW t \in Threads, Pause(t) \/ Cancelled(t) \/ Leave(t)
       PROVE  cancelled' \subseteq cancelled
  BY <1>12 DEF Pause, Cancelled, Leave
<1> QED
  BY <1>3, <1>4, <1>5, <1>6, <1>7, <1>8, <1>9, <1>10, <1>11, <1>12 DEF Next

\* The steps of gyroscope_threads and engines that take sem_gas or post it.
TakesGas ==
  \E t \in GyroThreads \cup EngineThreads : \E l \in Critical : TakeGas(t, l)
PostsGas ==
  \/ \E p \in Pairs : Correct(p[1], p[2])
  \/ \E k \in 1..Engines : Refill(k)

\* Every other step, those of go_up_explode apart, is calm.
LEMMA OthersCalm ==
  ASSUME ControlType, EngineInv, GasInv, Next, ~go_up_explode, ~TakesGas, ~PostsGas
  PROVE  Calm /\ sem_gas' = sem_gas
<1> DEFINE Same == Calm /\ sem_gas' = sem_gas
<1> USE LoopCalm DEF locks
<1>1. /\ Singles \subseteq Threads /\ {MA, LC, SE, RL, GU} \subseteq Singles \ {EX} /\ RL # GU
      /\ CurrentPairs \in SUBSET Threads /\ CurrentPairs \cap EngineThreads = {}
      /\ {GU, RL} \in SUBSET Threads /\ {GU, RL} \cap EngineThreads = {}
      /\ {GU, RL, SE, MAIN} \in SUBSET Threads /\ {GU, RL, SE, MAIN} \cap EngineThreads = {}
  BY Classes, Targets, SinglesDistinct DEF Singles
<1>2. /\ \A l \in {"top", "kill", "gas", "gs", "dead", "asleep", "exited", "landed", "stop", "abort",
                   "create", "climb", "seen", "stop and thrusters", "thrusters", "engine",
                   "engine and thrusters", "pause"} : l \notin Critical
      /\ Branch \notin Critical
  BY DEF Critical, Branch
<1>3. CASE SimulatorStep
  BY <1>3 DEF SimulatorStep, Calm
<1>4. CASE Main
  BY <1>2, <1>4, GoCalm DEF Main, At
<1>5. ASSUME NEW p \in Pairs, signal_gyro(p[1], p[2]) \/ gyroscope_thread(p[1], p[2]) PROVE Same
  <2> DEFINE i == p[1]
             sg == SG(i, p[2])
             gt == GT(i, p[2])
             sg1 == SG(i, pair[i])
             gt1 == GT(i, pair[i])
  <2>1. i \in Gyros /\ p[2] \in 1..Lives
    BY DEF Pairs
  <2>2. sg \in SignalGyros /\ gt \in GyroThreads /\ sg1 \in SignalGyros /\ gt1 \in GyroThreads
    BY <2>1, Names, PairNames
  <2>3. ~Correct(i, p[2]) /\ ~TakeGas(gt, "burn")
    BY <2>2 DEF TakesGas, PostsGas, Critical
  <2>4. /\ sem_gas' = sem_gas
        /\ \/ \E l \in {"dead", "kill", "gas", Loop} :
                \/ Go(sg, l) /\ pc[sg] = "top"
                \/ Go(gt, l) /\ pc[gt] = "top"
           \/ SignalAndPause(sg, gt1) /\ pc[sg] = "kill"
           \/ SignalAndPause(gt, sg1) /\ pc[gt] = "kill"
    BY <1>5, <2>3 DEF signal_gyro, gyroscope_thread, Look, WakeSignalGyro, At
  <2> HIDE DEF i, sg, gt, sg1, gt1
  <2>5. {sg, gt, sg1, gt1} \subseteq Threads /\ sg # gt1 /\ gt # sg1
    BY <2>2, Classes
  <2> QED
    BY <1>2, <2>4, <2>5, GoCalm, SignalCalm
<1>6. ASSUME NEW k \in 1..Engines, pricipal_engine_thread(k) PROVE Same
  <2>1. TakeGyros(k)
    BY <1>6, Names DEF pricipal_engine_thread, TakesGas, PostsGas, Critical
  <2> QED
    BY <1>2, <2>1, GoCalm DEF TakeGyros, At
<1>7. CASE signal_restart_landing
  BY <1>1, <1>2, <1>7, GoCalm, SignalCalm, CancelCalm, Targets DEF signal_restart_landing, At
<1>8. CASE go_up_30m
  BY <1>1, <1>2, <1>8, GoCalm, SignalCalm, CreateCalm, LocationNames
  DEF go_up_30m, LoadDistance, StoreDistance, EndClimb, WakeRestarter, At
<1>9. CASE signal_landing_check
  <2>1. CASE DeclareLanding
    <3>1. terminate_event_3 \cup {SE, MAIN} = {GU, RL, SE, MAIN}
      BY Targets
    <3> QED
      BY <1>1, <1>2, <2>1, <3>1, GoCalm, CancelCalm DEF DeclareLanding, At
  <2>2. CASE CutEngine \/ GoOnLanding
    BY <1>1, <1>2, <2>2, GoCalm, CancelCalm, Targets DEF CutEngine, GoOnLanding, At
  <2> QED
    BY <1>9, <2>1, <2>2 DEF signal_landing_check
<1>10. CASE signal_explote_rocket
  <2>1. CASE At(SE, "create")
    <3>1. pc' = [pc EXCEPT ![SE] = "dead", ![EX] = IF is_on THEN "gas" ELSE "dead"]
          /\ pc[SE] = "create" /\ sem_gas' = sem_gas
      BY <1>10, <2>1 DEF signal_explote_rocket, At
    <3> QED
      BY <1>1, <1>2, <3>1 DEF Calm, ControlType
  <2>2. ASSUME NEW l, Go(SE, l), pc[SE] = "top", l \in {Loop} PROVE Calm
    BY <1>1, <1>2, <2>2, GoCalm
  <2>3. ASSUME NEW T \in {CurrentPairs, {GU, RL}}, NEW l \in {"abort", "create"}, Cancel(T, SE, l),
               pc[SE] \in {"top", "abort"}
        PROVE  Calm
    BY <1>1, <1>2, <2>3, CancelCalm
  <2> QED
    BY <1>10, <2>1, <2>2, <2>3, Targets DEF signal_explote_rocket, At
<1>11. CASE sig_handler_manual
  <2>1. CASE RestartEngine /\ pc[MA] \in Restarting
    <3>1. /\ pc' = [pc EXCEPT ![PE(engine + 1)] = Loop,
                              ![MA] = IF @ = "engine" THEN "seen" ELSE "thrusters"]
          /\ sem_gas' = sem_gas
      BY <2>1 DEF RestartEngine, Restarting
    <3>2. pc[PE(engine + 1)] \notin Critical
      <4>1. engine \in 1..Engines /\ engine < Engines
        BY <2>1 DEF ControlType, Restarting
      <4>2. engine + 1 \in 1..Engines /\ engine + 1 > engine
        BY <4>1, EnginesNat
      <4>3. pc[PE(engine + 1)] = "dead"
        BY <4>2 DEF EngineInv, Unborn
      <4> QED
        BY <1>2, <4>3
    <3> QED
      <4>1. MA \in Threads /\ pc[MA] \notin Critical
        BY <1>1, <2>1 DEF Restarting, Critical
      <4>2. (IF pc[MA] = "engine" THEN "seen" ELSE "thrusters") \notin Critical
        BY <1>2
      <4>3. pc \in [Threads -> Locations]
        BY DEF ControlType
      <4> QED
        BY <3>1, <3>2, <4>1, <4>2, <4>3 DEF Calm
  <2>2. CASE ReadAlarm \/ SeeAlarm \/ restart_thrusters
    BY <1>1, <1>2, <2>2, GoCalm, CancelCalm, CreateCalm, Targets, LocationNames
    DEF ReadAlarm, SeeAlarm, restart_thrusters, At
  <2>3. CASE RestartEngine /\ pc[MA] \notin Restarting
    BY <1>1, <1>2, <2>3, GoCalm DEF RestartEngine, Restarting
  <2> QED
    BY <1>11, <2>1, <2>2, <2>3 DEF sig_handler_manual
<1>12. ASSUME NEW t \in Threads, Pause(t) \/ Leave(t) PROVE Same
  BY <1>2, <1>12, GoCalm DEF Pause, Leave, At
<1>13. ASSUME NEW t \in Threads, Cancelled(t) PROVE Same
  <2>1. Go(t, "dead") /\ sem_gas' = sem_gas /\ t \in cancelled /\ Cancellable(t)
    BY <1>13 DEF Cancelled
  <2>2. t = EX \/ pc[t] \notin Critical
    <3>1. CASE t \in EngineThreads
      <4>1. sem_gas = EX /\ t # EX
        BY <2>1, <3>1, Classes DEF GasInv, Singles
      <4> QED
        BY <4>1 DEF GasInv
    <3>2. CASE t \notin EngineThreads
      <4>1. pc[t] \in CancellationPoints
        BY <2>1, <3>2 DEF Cancellable, ControlType
      <4> QED
        BY <4>1 DEF CancellationPoints, Critical
    <3> QED
      BY <3>1, <3>2
  <2> QED
    BY <1>2, <2>1, <2>2, GoCalm
<1> QED
  BY <1>3, <1>4, <1>5, <1>6, <1>7, <1>8, <1>9, <1>10, <1>11, <1>12, <1>13 DEF Next

LEMMA GasInit == Init => GasInv
<1> SUFFICES ASSUME Init PROVE GasInv
  OBVIOUS
<1>1. \A t \in Threads : pc[t] \in {"asleep", "top", "dead"}
  BY DEF Init
<1>2. pc[EX] = "dead"
  <2>1. EX \in Threads \ (GyroThreads \cup SignalGyros \cup EngineThreads)
    BY Classes DEF Singles
  <2>2. EX # GU /\ EX \notin {PE(1), RL, SE, LC, MA, MAIN}
    BY SinglesDistinct, Distinct DEF Singles
  <2> QED
    BY <2>1, <2>2 DEF Init
<1>3. sem_gas = Nobody /\ cancelled = {} /\ EX \in Threads
  BY Classes DEF Init, Singles
<1> QED
  BY <1>1, <1>2, <1>3, NobodyIsNoThread DEF GasInv, Critical

\* gyroscope_thread or the engine takes sem_gas.
LEMMA GasTaken ==
  ASSUME ControlType, GasInv, NEW t \in GyroThreads \cup EngineThreads, NEW l \in Critical,
         TakeGas(t, l)
  PROVE  GasInv'
<1>1. /\ sem_gas = Nobody /\ sem_gas' = t /\ Go(t, l) /\ cancelled' = cancelled
      /\ t \in Threads \ Singles /\ {EX, SE} \subseteq Singles /\ Singles \subseteq Threads
  BY Classes DEF TakeGas, Singles
<1>2. pc' = [pc EXCEPT ![t] = l] /\ pc \in [Threads -> Locations]
  BY <1>1 DEF Go, ControlType
<1>3. \A v \in Threads \ {EX} : pc[v] \notin Critical
  BY <1>1, NobodyIsNoThread DEF GasInv
<1>4. sem_gas # EX
  BY <1>1, NobodyIsNoThread
<1>5. \A v \in Threads \ {EX} : pc'[v] \in Critical <=> sem_gas' = v
  BY <1>1, <1>2, <1>3
<1>6. pc'[EX] = pc[EX] /\ pc'[SE] = pc[SE] /\ sem_gas' # EX
  BY <1>1, <1>2
<1> QED
  BY <1>1, <1>4, <1>5, <1>6 DEF GasInv

\* Its holder posts sem_gas.
LEMMA GasPosted ==
  ASSUME ControlType, GasInv, NEW t \in GyroThreads \cup EngineThreads, pc[t] \in Critical,
         Go(t, Loop), sem_gas' = Nobody, cancelled' = cancelled
  PROVE  GasInv'
<1>1. t \in Threads \ Singles /\ {EX, SE} \subseteq Singles /\ Singles \subseteq Threads
  BY Classes DEF Singles
<1>2. pc' = [pc EXCEPT ![t] = Loop] /\ pc \in [Threads -> Locations]
  BY DEF Go, ControlType
<1>3. sem_gas = t
  BY <1>1 DEF GasInv
<1>4. \A v \in Threads \ {EX} : pc'[v] \notin Critical
  BY <1>1, <1>2, <1>3, LoopCalm DEF GasInv
<1>5. pc'[EX] = pc[EX] /\ pc'[SE] = pc[SE]
  BY <1>1, <1>2
<1>6. \A v \in Threads : sem_gas' # v
  BY NobodyIsNoThread
<1> QED
  BY <1>1, <1>3, <1>4, <1>5, <1>6 DEF GasInv

LEMMA GasClimb == ASSUME ControlType, GasInv, go_up_explode PROVE GasInv'
<1>1. EX \in Threads /\ SE \in Threads /\ EX # SE /\ MAIN \in Threads
      /\ pc \in [Threads -> Locations]
  BY Classes, SinglesDistinct DEF Singles, ControlType
<1>2. EX \notin EngineThreads /\ SE \notin EngineThreads /\ PE(engine) \in EngineThreads
      /\ SE # MAIN
  BY Classes, Names, SinglesDistinct DEF Singles, ControlType
<1>3. CASE TakeGasToClimb
  <2>1. /\ pc[EX] = "gas" /\ sem_gas = Nobody /\ sem_gas' = EX /\ cancelled' = cancelled
        /\ Go(EX, "climb") \/ Go(EX, "explode")
    BY <1>3 DEF TakeGasToClimb, At
  <2>2. \A v \in Threads \ {EX} : pc'[v] = pc[v] /\ pc[v] \notin Critical
    BY <1>1, <2>1, NobodyIsNoThread DEF GasInv, Go
  <2>3. pc[SE] = "dead" /\ \A t \in EngineThreads : t \notin cancelled
    BY <2>1 DEF GasInv
  <2> QED
    BY <1>1, <2>1, <2>2, <2>3 DEF GasInv
<1>4. CASE Compensate
  <2>1. /\ pc[EX] = "climb" /\ sem_gas = EX /\ sem_gas' = Nobody /\ cancelled' = cancelled
        /\ Go(EX, IF is_on THEN "gas" ELSE "dead")
    BY <1>4 DEF Compensate, At, GasInv
  <2>2. \A v \in Threads \ {EX} : pc'[v] = pc[v] /\ pc[v] \notin Critical /\ sem_gas' # v
    BY <1>1, <2>1, NobodyIsNoThread DEF GasInv, Go
  <2>3. pc'[EX] \in {"gas", "dead"}
    BY <1>1, <2>1 DEF Go
  <2>4. pc[SE] = "dead" /\ \A t \in EngineThreads : t \notin cancelled
    BY <2>1 DEF GasInv
  <2> QED
    BY <1>1, <2>1, <2>2, <2>3, <2>4 DEF GasInv
<1>5. CASE Explode
  <2>1. /\ pc[EX] = "explode" /\ sem_gas = EX /\ sem_gas' = EX
        /\ Cancel({PE(engine), MAIN}, EX, "dead")
    BY <1>5 DEF Explode, At, GasInv, locks
  <2>2. \A v \in Threads \ {EX} : pc'[v] \in {pc[v], "dead"} /\ pc[v] \notin Critical
    BY <1>1, <2>1 DEF GasInv, Cancel
  <2>3. pc'[EX] = "dead" /\ pc[SE] = "dead"
    BY <1>1, <2>1 DEF GasInv, Cancel
  <2>4. "dead" \notin Critical
    BY DEF Critical
  <2> QED
    BY <1>1, <2>1, <2>2, <2>3, <2>4 DEF GasInv
<1> QED
  BY <1>3, <1>4, <1>5 DEF go_up_explode

LEMMA GasNext == ControlType /\ EngineInv /\ GasInv /\ [Next]_vars => GasInv'
<1> SUFFICES ASSUME ControlType, EngineInv, GasInv, [Next]_vars PROVE GasInv'
  OBVIOUS
<1>1. CASE UNCHANGED vars
  BY <1>1 DEF vars, locks, GasInv
<1>2. CASE go_up_explode
  BY <1>2, GasClimb
<1>3. CASE TakesGas
  BY <1>3, GasTaken DEF TakesGas
<1>4. CASE PostsGas
  <2>1. ASSUME NEW p \in Pairs, Correct(p[1], p[2]) PROVE GasInv'
    <3>1. GT(p[1], p[2]) \in GyroThreads
      BY Names DEF Pairs
    <3>2. "burn" \in Critical
      BY DEF Critical
    <3> QED
      BY <2>1, <3>1, <3>2, GasPosted DEF Correct, At
  <2>2. ASSUME NEW k \in 1..Engines, Refill(k) PROVE GasInv'
    <3>1. PE(k) \in EngineThreads
      BY Names
    <3>2. "store" \in Critical /\ "post" \in Critical
      BY DEF Critical
    <3> QED
      BY <2>2, <3>1, <3>2, GasPosted DEF Refill, At
  <2> QED
    BY <1>4, <2>1, <2>2 DEF PostsGas
<1>5. CASE Next /\ ~go_up_explode /\ ~TakesGas /\ ~PostsGas
  <2>1. Calm /\ sem_gas' = sem_gas
    BY <1>5, OthersCalm
  <2>2. {EX, SE} \subseteq Threads /\ EX # SE /\ EX \notin EngineThreads
    BY Classes, SinglesDistinct DEF Singles
  <2>3. \A t \in EngineThreads : t \in cancelled' => t \in cancelled
    <3>1. cancelled' \subseteq cancelled \cup CurrentPairs \cup {GU, RL, SE, MAIN}
      BY <1>5, Cancels DEF go_up_explode
    <3>2. CurrentPairs \cap EngineThreads = {} /\ {GU, RL, SE, MAIN} \cap EngineThreads = {}
      BY Targets, Classes DEF Singles
    <3> QED
      BY <3>1, <3>2
  <2>4. CASE signal_explote_rocket
    <3>1. pc[SE] # "dead"
      BY <2>4 DEF signal_explote_rocket, At
    <3>2. pc[EX] = "dead" /\ sem_gas # EX
      BY <3>1 DEF GasInv
    <3>3. pc'[EX] = "dead" \/ (pc'[SE] = "dead" /\ pc'[EX] = "gas")
      <4>1. CASE At(SE, "create")
        <5>1. pc' = [pc EXCEPT ![SE] = "dead", ![EX] = IF is_on THEN "gas" ELSE "dead"]
          BY <2>4, <4>1 DEF signal_explote_rocket, At
        <5>2. pc \in [Threads -> Locations]
          BY DEF ControlType
        <5> QED
          BY <2>2, <5>1, <5>2
      <4>2. ASSUME NEW l, Go(SE, l) PROVE pc'[EX] = pc[EX]
        BY <2>2, <4>2 DEF Go, ControlType
      <4>3. ASSUME NEW T, NEW l, Cancel(T, SE, l) PROVE pc'[EX] \in {pc[EX], "dead"}
        BY <2>2, <4>3 DEF Cancel
      <4> QED
        BY <2>4, <3>2, <4>1, <4>2, <4>3 DEF signal_explote_rocket
    <3> QED
      BY <2>1, <2>2, <2>3, <3>2, <3>3 DEF GasInv, Calm
  <2>5. CASE ~signal_explote_rocket
    <3>1. Still(EX) /\ Still(SE)
      BY <1>5, <2>5, Bystanders
    <3>2. /\ pc[EX] = "dead" => pc'[EX] = "dead"
          /\ pc[SE] = "dead" => pc'[SE] = "dead"
          /\ pc'[EX] \in {"climb", "explode"} => pc[EX] \in {"climb", "explode"}
      BY <3>1 DEF Still
    <3> QED
      BY <2>1, <2>2, <2>3, <3>2 DEF GasInv, Calm
  <2> QED
    BY <2>4, <2>5
<1> QED
  BY <1>1, <1>2, <1>3, <1>4, <1>5

\* sem_gas is posted by whoever has taken it, an engine that SIGTSTP has parked
\* and go_up_explode apart, for all the pthread_cancels of the landing and of the
\* abort and however the engines are replaced.
THEOREM GasNotLost == Spec => []GasKept
<1>1. Init => GasInv
  BY GasInit
<1>2. ControlType /\ EngineInv /\ GasInv /\ [Next]_vars => GasInv'
  BY GasNext
<1>3. GasInv => GasKept
  BY DEF GasInv, GasKept, Critical
<1> QED
  BY <1>1, <1>2, <1>3, Types, EngineInvariant, PTL DEF Spec

-----------------------------------------------------------------------------
(* Who sleeps, and who was sent a SIGCONT.                                 *)

Quiet == {"pause", "asleep"}
Sleepers == SignalGyros \cup GyroThreads \cup {RL, GU}

\* Nobody comes to a pause() in a step.
NoneNods == \A t \in Threads : pc'[t] \in Quiet => pc[t] \in Quiet

Ordinary == NoneNods /\ missed' = missed /\ pair' = pair

PairSignal(i) ==
  \E k \in 1..Lives :
    SignalAndPause(SG(i, k), GT(i, pair[i])) \/ SignalAndPause(GT(i, k), SG(i, pair[i]))

LandingSignal == SignalAndPause(RL, GU) \/ SignalAndPause(GU, RL)

Creation == \E u \in {GU, MA} : \E l \in {"kill", "seen"} : create_signals_gyros(u, l)

LEMMA GoNods ==
  ASSUME ControlType, NEW t, NEW l, Go(t, l), l \in Quiet => pc[t] \in Quiet
  PROVE  NoneNods
  BY DEF Go, ControlType, NoneNods

LEMMA CancelNods ==
  ASSUME ControlType, NEW T, NEW u, NEW l, l \notin Quiet, Cancel(T, u, l)
  PROVE  NoneNods
<1>1. "dead" \notin Quiet
  BY DEF Quiet
<1> QED
  BY <1>1 DEF Cancel, NoneNods

LEMMA StepKinds ==
  ASSUME ControlType, Next
  PROVE  \/ Ordinary
         \/ pair' = pair /\ ((\E i \in Gyros : PairSignal(i)) \/ LandingSignal)
         \/ Creation
<1> USE DEF arrays, Ordinary
<1>1. /\ \A l \in {"top", "kill", "gas", "gs", "burn", "store", "post", "dead", "exited", "landed",
                   "stop", "abort", "create", "climb", "explode", "seen", "stop and thrusters",
                   "thrusters", "engine", "engine and thrusters"} : l \notin Quiet
      /\ Branch \notin Quiet /\ Loop \notin Quiet
  BY LoopFact DEF Quiet, Branch
<1>2. CASE SimulatorStep
  BY <1>2 DEF SimulatorStep, NoneNods
<1>3. CASE Main
  BY <1>1, <1>3, GoNods DEF Main
<1>4. ASSUME NEW p \in Pairs, signal_gyro(p[1], p[2]) \/ gyroscope_thread(p[1], p[2])
      PROVE  Ordinary \/ (pair' = pair /\ PairSignal(p[1]))
  <2>1. p[1] \in Gyros /\ p[2] \in 1..Lives
    BY DEF Pairs
  <2>2. CASE signal_gyro(p[1], p[2])
    BY <1>1, <2>1, <2>2, GoNods DEF signal_gyro, PairSignal
  <2>3. CASE Look(p[1], p[2]) \/ TakeGas(GT(p[1], p[2]), "burn") \/ Correct(p[1], p[2])
    BY <1>1, <2>3, GoNods DEF Look, TakeGas, Correct
  <2>4. CASE WakeSignalGyro(p[1], p[2])
    BY <2>1, <2>4 DEF WakeSignalGyro, PairSignal
  <2> QED
    BY <1>4, <2>2, <2>3, <2>4 DEF gyroscope_thread
<1>5. ASSUME NEW k, pricipal_engine_thread(k) PROVE Ordinary
  BY <1>1, <1>5, GoNods DEF pricipal_engine_thread, TakeGyros, TakeGas, Refill
<1>6. CASE signal_restart_landing
  BY <1>1, <1>6, GoNods, CancelNods DEF signal_restart_landing, LandingSignal
<1>7. CASE go_up_30m
  BY <1>1, <1>7, GoNods
  DEF go_up_30m, LoadDistance, StoreDistance, EndClimb, WakeRestarter, LandingSignal, Creation
<1>8. CASE signal_landing_check
  BY <1>1, <1>8, GoNods, CancelNods
  DEF signal_landing_check, DeclareLanding, CutEngine, GoOnLanding
<1>9. CASE signal_explote_rocket
  <2>1. CASE pc' = [pc EXCEPT ![SE] = "dead", ![EX] = IF is_on THEN "gas" ELSE "dead"]
    <3>1. NoneNods
      BY <1>1, <2>1 DEF NoneNods, ControlType
    <3> QED
      BY <1>1, <1>9, <3>1 DEF signal_explote_rocket
  <2> QED
    BY <1>1, <1>9, <2>1, GoNods, CancelNods DEF signal_explote_rocket
<1>10. CASE go_up_explode
  BY <1>1, <1>10, GoNods, CancelNods DEF go_up_explode, TakeGasToClimb, Compensate, Explode
<1>11. CASE sig_handler_manual
  <2>1. CASE ReadAlarm \/ SeeAlarm \/ restart_thrusters
    BY <1>1, <2>1, GoNods, CancelNods DEF ReadAlarm, SeeAlarm, restart_thrusters, Creation
  <2>2. CASE RestartEngine /\ pc[MA] \notin Restarting
    BY <1>1, <2>2, GoNods DEF RestartEngine, Restarting
  <2>3. CASE RestartEngine /\ pc[MA] \in Restarting
    <3>1. /\ pc' = [pc EXCEPT ![PE(engine + 1)] = Loop,
                              ![MA] = IF @ = "engine" THEN "seen" ELSE "thrusters"]
          /\ missed' = missed /\ pair' = pair
      BY <2>3 DEF RestartEngine, Restarting
    <3>2. (IF pc[MA] = "engine" THEN "seen" ELSE "thrusters") \notin Quiet
      BY <1>1
    <3>3. MA \in Threads /\ \A k : PE(k) # MA
      BY Classes, Distinct DEF Singles
    <3> QED
      BY <1>1, <3>1, <3>2, <3>3 DEF NoneNods, ControlType
  <2> QED
    BY <1>11, <2>1, <2>2, <2>3 DEF sig_handler_manual
<1>12. ASSUME NEW t \in Threads, Pause(t) \/ Cancelled(t) \/ Leave(t) PROVE Ordinary
  <2>1. CASE Pause(t)
    BY <2>1, GoNods DEF Pause, At, Quiet
  <2>2. CASE Cancelled(t) \/ Leave(t)
    BY <1>1, <2>2, GoNods DEF Cancelled, Leave
  <2> QED
    BY <1>12, <2>1, <2>2
<1> QED
  <2>1. \A p \in Pairs : p[1] \in Gyros
    BY DEF Pairs
  <2> QED
    BY <2>1, <1>2, <1>3, <1>4, <1>5, <1>6, <1>7, <1>8, <1>9, <1>10, <1>11, <1>12 DEF Next

\* If both sleep, or are about to, one of them was awake for its last SIGCONT.
BothQuiet(t, u) == pc[t] \in Quiet /\ pc[u] \in Quiet => missed \cap {t, u} # {}

SignalInv ==
  /\ BothQuiet(RL, GU)
  /\ \A i \in Gyros : BothQuiet(SG(i, pair[i]), GT(i, pair[i]))

LEMMA SignalInit == Init => SignalInv
<1> SUFFICES ASSUME Init PROVE SignalInv
  OBVIOUS
<1>0. "top" \notin Quiet
  BY DEF Quiet
<1>1. pc[RL] = "top"
  <2>1. RL \in Threads \ GyroThreads /\ RL # GU
    BY Classes, SinglesDistinct DEF Singles
  <2> QED
    BY <2>1 DEF Init
<1>2. ASSUME NEW i \in Gyros PROVE pc[SG(i, pair[i])] = "top"
  <2>1. pair[i] = 1 /\ 1 \in 1..Lives
    BY BoundsAssumption DEF Init
  <2>2. SG(i, 1) \in SignalGyros
    BY <2>1, Names
  <2>3. SG(i, 1) \in Threads \ GyroThreads /\ SG(i, 1) # GU
    BY <2>2, Classes DEF Singles
  <2>4. SG(i, 1)[3] = 1
    BY DEF SG
  <2> QED
    BY <2>1, <2>2, <2>3, <2>4 DEF Init
<1> QED
  BY <1>0, <1>1, <1>2 DEF SignalInv, BothQuiet

\* The thread that goes on to its pause() has just sent the other a SIGCONT: it
\* is awake now, or has missed it.
LEMMA SignalledIsAwake ==
  ASSUME ControlType, NEW u \in Threads, NEW t \in Threads, u # t, SignalAndPause(u, t)
  PROVE  pc'[t] \in Quiet => t \in missed'
<1>1. Loop \notin Quiet
  BY LoopFact DEF Quiet
<1> QED
  BY <1>1, SignalFacts

LEMMA SignalNext == ControlType /\ SignalInv /\ [Next]_vars => SignalInv'
<1> SUFFICES ASSUME ControlType, SignalInv, [Next]_vars PROVE SignalInv'
  OBVIOUS
<1>0. RL \in Threads /\ GU \in Threads /\ MA \in Threads /\ RL # GU /\ RL # MA /\ GU # MA
      /\ RL \in Singles /\ GU \in Singles /\ MA \in Singles
  BY Classes, SinglesDistinct DEF Singles
<1>1. CASE UNCHANGED vars
  BY <1>1 DEF vars, arrays, SignalInv, BothQuiet
<1>2. CASE Ordinary
  <2>1. \A i \in Gyros : SG(i, pair[i]) \in Threads /\ GT(i, pair[i]) \in Threads
    BY PairNames, Classes
  <2> QED
    BY <1>0, <1>2, <2>1 DEF Ordinary, NoneNods, SignalInv, BothQuiet
<1>3. ASSUME NEW i \in Gyros, PairSignal(i), pair' = pair PROVE SignalInv'
  <2> PICK k \in 1..Lives :
        SignalAndPause(SG(i, k), GT(i, pair[i])) \/ SignalAndPause(GT(i, k), SG(i, pair[i]))
    BY <1>3 DEF PairSignal
  <2> DEFINE sg == SG(i, k)
             gt == GT(i, k)
             sg1 == SG(i, pair[i])
             gt1 == GT(i, pair[i])
  <2>1. sg \in SignalGyros /\ gt \in GyroThreads /\ sg1 \in SignalGyros /\ gt1 \in GyroThreads
    BY Names, PairNames
  <2>2. {sg, gt, sg1, gt1} \subseteq Threads /\ sg # gt1 /\ gt # sg1
        /\ {sg, gt, sg1, gt1} \cap Singles = {}
    BY <2>1, Classes
  <2>3. \E u \in {sg, gt} : \E t \in {sg1, gt1} :
          /\ pc'[t] \in Quiet => t \in missed'
          /\ \A v \in Threads \ {u, t} : pc'[v] = pc[v]
          /\ missed' \in {missed \cup {t}, missed \ {t}}
    BY <2>2, SignalFacts, SignalledIsAwake
  <2>4. BothQuiet(RL, GU)'
    BY <1>0, <2>2, <2>3 DEF SignalInv, BothQuiet
  <2>5. BothQuiet(SG(i, pair[i]), GT(i, pair[i]))'
    BY <1>3, <2>3 DEF BothQuiet
  <2>6. ASSUME NEW j \in Gyros, j # i PROVE BothQuiet(SG(j, pair[j]), GT(j, pair[j]))'
    <3> DEFINE sg2 == SG(j, pair[j])
               gt2 == GT(j, pair[j])
    <3>1. {sg2, gt2} \subseteq Threads /\ {sg2, gt2} \cap {sg, gt, sg1, gt1} = {}
      BY <2>6, PairNames, Classes, Distinct
    <3>2. BothQuiet(sg2, gt2)
      BY DEF SignalInv
    <3>3. pair'[j] = pair[j]
      BY <1>3
    <3> HIDE DEF sg, gt, sg1, gt1
    <3> QED
      BY <2>3, <3>1, <3>2, <3>3 DEF BothQuiet
  <2> QED
    BY <2>4, <2>5, <2>6 DEF SignalInv
<1>4. ASSUME LandingSignal, pair' = pair PROVE SignalInv'
  <2>1. \E u \in {RL, GU} : \E t \in {RL, GU} :
          /\ pc'[t] \in Quiet => t \in missed'
          /\ \A v \in Threads \ {u, t} : pc'[v] = pc[v]
          /\ missed' \in {missed \cup {t}, missed \ {t}}
    BY <1>0, <1>4, SignalFacts, SignalledIsAwake DEF LandingSignal
  <2>2. BothQuiet(RL, GU)'
    BY <2>1 DEF BothQuiet
  <2>3. ASSUME NEW j \in Gyros PROVE BothQuiet(SG(j, pair[j]), GT(j, pair[j]))'
    <3> DEFINE sg2 == SG(j, pair[j])
               gt2 == GT(j, pair[j])
    <3>1. {sg2, gt2} \subseteq Threads /\ {sg2, gt2} \cap {RL, GU} = {}
      BY <1>0, PairNames, Classes
    <3>2. BothQuiet(sg2, gt2)
      BY DEF SignalInv
    <3>3. pair'[j] = pair[j]
      BY <1>4
    <3> QED
      BY <2>1, <3>1, <3>2, <3>3 DEF BothQuiet
  <2> QED
    BY <2>2, <2>3 DEF SignalInv
<1>5. CASE Creation
  <2> PICK u \in {GU, MA}, l \in {"kill", "seen"} : create_signals_gyros(u, l)
    BY <1>5 DEF Creation
  <2>1. u \in Singles /\ l \in Locations /\ l \notin Quiet
    BY <1>0, LocationNames DEF Quiet
  <2>2. /\ pc'[u] = l /\ missed' = missed \ NewPairs
        /\ NewPairs \subseteq SignalGyros \cup GyroThreads
        /\ \A t \in Threads \ (NewPairs \cup {u}) : pc'[t] = pc[t]
        /\ \A i \in Gyros : pc'[SG(i, pair'[i])] = Loop
    BY <2>1, CreateFacts
  <2>3. Loop \notin Quiet
    BY LoopFact DEF Quiet
  <2>4. \A i \in Gyros : BothQuiet(SG(i, pair[i]), GT(i, pair[i]))'
    BY <2>2, <2>3 DEF BothQuiet
  <2>5. RL \notin NewPairs /\ GU \notin NewPairs
    BY <1>0, <2>2, Classes
  <2>6. BothQuiet(RL, GU)'
    BY <1>0, <2>1, <2>2, <2>5 DEF SignalInv, BothQuiet
  <2> QED
    BY <2>4, <2>6 DEF SignalInv
<1> QED
  BY <1>1, <1>2, <1>3, <1>4, <1>5, StepKinds

\* A pair of threads that wake each other sleep on both only if a SIGCONT found
\* one of them awake: pthread_kill before the other's pause() is a lost wake-up.
THEOREM SleepMeansMissed == Spec => []MissedSignal
<1>1. Init => SignalInv
  BY SignalInit
<1>2. ControlType /\ SignalInv /\ [Next]_vars => SignalInv'
  BY SignalNext
<1>3. SignalInv => MissedSignal
  <2>1. \A t, u : Dozing(t, u) => pc[t] \in Quiet /\ pc[u] \in Quiet
    BY DEF Dozing, Quiet
  <2> QED
    BY <2>1 DEF SignalInv, BothQuiet, MissedSignal
<1> QED
  BY <1>1, <1>2, <1>3, Types, PTL DEF Spec

-----------------------------------------------------------------------------
(* What is left asleep after the landing.                                  *)

Ended(t) == pc[t] = "dead" \/ t \in cancelled
ClimbEnded == Ended(RL) /\ Ended(GU)

\* is_on falls, and go_up_explode begins, only once signal_restart_landing and
\* go_up_30m have been cancelled; or signal_landing_check is about to do it.
LandedInv ==
  /\ \A t \in Threads : pc[t] \in Quiet => t \in Sleepers
  /\ LC \notin cancelled
  /\ pc[LC] = "dead" => ClimbEnded
  /\ ~is_on => pc[LC] = "landed" \/ ClimbEnded
  /\ pc[EX] # "dead" => ClimbEnded
  /\ pc[SE] = "create" => ClimbEnded

\* A request to end is forgotten only when its thread ends.
LEMMA Uncancels ==
  ASSUME ControlType, Next, NEW t \in {RL, GU}, t \in cancelled
  PROVE  t \in cancelled' \/ pc'[t] = "dead"
<1>0. t \in Threads /\ t \in Singles /\ GU \in Singles /\ MA \in Singles
  BY Classes DEF Singles
<1>a. pc \in [Threads -> Locations] /\ "kill" \in Locations /\ "seen" \in Locations
  BY LocationNames DEF ControlType
<1>1. ASSUME NEW T, NEW u, NEW l, Cancel(T, u, l) PROVE t \in cancelled'
  BY <1>1 DEF Cancel
<1>2. ASSUME NEW u \in {GU, MA}, NEW l \in {"kill", "seen"}, create_signals_gyros(u, l)
      PROVE  t \in cancelled'
  <2>1. u \in Singles /\ l \in Locations
    BY <1>0, <1>a
  <2>2. cancelled' = cancelled \ NewPairs /\ NewPairs \subseteq SignalGyros \cup GyroThreads
    BY <1>2, <2>1, CreateFacts
  <2> QED
    BY <1>0, <2>2, Classes
<1>3. CASE SimulatorStep \/ Main
  BY <1>3 DEF SimulatorStep, Main
<1>4. ASSUME NEW i, NEW k, signal_gyro(i, k) \/ gyroscope_thread(i, k) PROVE cancelled' = cancelled
  BY <1>4 DEF signal_gyro, gyroscope_thread, Look, TakeGas, Correct, WakeSignalGyro
<1>5. ASSUME NEW k, pricipal_engine_thread(k) PROVE cancelled' = cancelled
  BY <1>5 DEF pricipal_engine_thread, TakeGyros, TakeGas, Refill
<1>6. CASE signal_restart_landing
  BY <1>1, <1>6 DEF signal_restart_landing
<1>7. CASE go_up_30m
  BY <1>2, <1>7 DEF go_up_30m, LoadDistance, StoreDistance, EndClimb, WakeRestarter
<1>8. CASE signal_landing_check
  BY <1>1, <1>8 DEF signal_landing_check, DeclareLanding, CutEngine, GoOnLanding
<1>9. CASE signal_explote_rocket
  BY <1>1, <1>9 DEF signal_explote_rocket
<1>10. CASE go_up_explode
  BY <1>1, <1>10 DEF go_up_explode, TakeGasToClimb, Compensate, Explode
<1>11. CASE sig_handler_manual
  <2>1. ReadAlarm \/ SeeAlarm => cancelled' = cancelled
    BY DEF ReadAlarm, SeeAlarm
  <2>2. RestartEngine => cancelled' = cancelled
    BY DEF RestartEngine
  <2>3. restart_thrusters => t \in cancelled'
    BY <1>1, <1>2 DEF restart_thrusters
  <2> QED
    BY <1>11, <2>1, <2>2, <2>3 DEF sig_handler_manual
<1>12. ASSUME NEW u \in Threads, Pause(u) \/ Leave(u) PROVE cancelled' = cancelled
  BY <1>12 DEF Pause, Leave
<1>13. ASSUME NEW u \in Threads, Cancelled(u) PROVE t \in cancelled' \/ pc'[t] = "dead"
  <2>1. pc' = [pc EXCEPT ![u] = "dead"] /\ cancelled' = cancelled \ {u}
    BY <1>13 DEF Cancelled, Go
  <2> QED
    BY <1>0, <1>a, <2>1
<1> QED
  BY <1>3, <1>4, <1>5, <1>6, <1>7, <1>8, <1>9, <1>10, <1>11, <1>12, <1>13 DEF Next

\* Neither is ever created again.
LEMMA EndedStable ==
  ASSUME ControlType, Next, NEW t \in {RL, GU}, Ended(t)
  PROVE  Ended(t)'
<1>1. CASE pc[t] = "dead"
  <2>1. pc[RL] = "dead" => ~signal_restart_landing
    BY DEF signal_restart_landing, At
  <2>2. pc[GU] = "dead" => ~go_up_30m
    BY DEF go_up_30m, LoadDistance, StoreDistance, EndClimb, WakeRestarter, At
  <2>3. Still(t)
    BY <1>1, <2>1, <2>2, Bystanders DEF Woken
  <2> QED
    BY <1>1, <2>3 DEF Still, Ended
<1>2. CASE t \in cancelled
  BY <1>2, Uncancels DEF Ended
<1> QED
  BY <1>1, <1>2 DEF Ended

\* signal_landing_check ends by itself.
LEMMA LanderEnds ==
  ASSUME ControlType, Next, pc[LC] # "dead", pc'[LC] = "dead"
  PROVE  signal_landing_check \/ Leave(LC) \/ Cancelled(LC)
<1>0. /\ LC \in Threads /\ LC \in Singles /\ GU \in Singles /\ MA \in Singles
      /\ LC # GU /\ LC # MA
      /\ LC \notin CurrentPairs /\ LC \notin {GU, RL, SE, MAIN, MA, EX}
      /\ LC \notin EngineThreads /\ LC # PE(engine) /\ LC # PE(engine + 1)
  BY Targets, Classes, SinglesDistinct, Distinct DEF Singles
<1>a. pc \in [Threads -> Locations] /\ "kill" \in Locations /\ "seen" \in Locations
  BY LocationNames DEF ControlType
<1>1. ASSUME NEW u, NEW l, Go(u, l), u # LC PROVE FALSE
  BY <1>0, <1>a, <1>1 DEF Go
<1>2. ASSUME NEW T, NEW u, NEW l, Cancel(T, u, l), u # LC, LC \notin T PROVE FALSE
  BY <1>0, <1>2 DEF Cancel
<1>3. ASSUME NEW u \in {GU, MA}, NEW l \in {"kill", "seen"}, create_signals_gyros(u, l)
      PROVE  FALSE
  <2>1. u \in Singles /\ l \in Locations /\ LC # u
    BY <1>0, <1>a
  <2> QED
    BY <1>0, <1>3, <2>1, CreateOnly
<1>4. ASSUME NEW u, NEW t, SignalAndPause(u, t), u # LC, t # LC PROVE FALSE
  BY <1>0, <1>a, <1>4 DEF SignalAndPause
<1>5. ASSUME NEW p \in Pairs PROVE ~(signal_gyro(p[1], p[2]) \/ gyroscope_thread(p[1], p[2]))
  <2>1. p[1] \in Gyros /\ p[2] \in 1..Lives
    BY DEF Pairs
  <2>2. LC \notin SignalGyros \cup GyroThreads
    BY <1>0, Classes
  <2>3. /\ LC # SG(p[1], p[2]) /\ LC # GT(p[1], p[2])
        /\ LC # SG(p[1], pair[p[1]]) /\ LC # GT(p[1], pair[p[1]])
    BY <2>1, <2>2, Names, PairNames
  <2> QED
    BY <1>1, <1>4, <2>3
    DEF signal_gyro, gyroscope_thread, Look, TakeGas, Correct, WakeSignalGyro
<1>6. ASSUME NEW k \in 1..Engines, pricipal_engine_thread(k) PROVE FALSE
  <2>1. LC # PE(k)
    BY <1>0, Names
  <2> QED
    BY <1>1, <1>6, <2>1 DEF pricipal_engine_thread, TakeGyros, TakeGas, Refill
<1>7. ASSUME NEW t \in Threads, Pause(t) \/ Cancelled(t) \/ Leave(t), t # LC PROVE FALSE
  BY <1>1, <1>7 DEF Pause, Cancelled, Leave
<1>8. ~Pause(LC)
  BY <1>0, <1>a DEF Pause, Go
<1>9. ~SimulatorStep /\ ~Main
  BY <1>0, <1>1 DEF SimulatorStep, Main
<1>10. ~signal_restart_landing
  BY <1>0, <1>1, <1>2, <1>4, Targets DEF signal_restart_landing
<1>11. ~go_up_30m
  BY <1>0, <1>1, <1>3, <1>4
  DEF go_up_30m, LoadDistance, StoreDistance, EndClimb, WakeRestarter
<1>12. ~signal_explote_rocket
  <2>1. pc' # [pc EXCEPT ![SE] = "dead", ![EX] = IF is_on THEN "gas" ELSE "dead"]
    BY <1>0, <1>a
  <2> QED
    BY <1>0, <1>1, <1>2, <2>1, Targets DEF signal_explote_rocket
<1>13. ~go_up_explode
  BY <1>0, <1>1, <1>2 DEF go_up_explode, TakeGasToClimb, Compensate, Explode
<1>14. ~sig_handler_manual
  <2>1. ~ReadAlarm /\ ~SeeAlarm
    BY <1>0, <1>1 DEF ReadAlarm, SeeAlarm
  <2>2. ~restart_thrusters
    BY <1>0, <1>2, <1>3, Targets DEF restart_thrusters
  <2>3. ~RestartEngine
    <3>1. \A l : pc' # [pc EXCEPT ![PE(engine + 1)] = Loop, ![MA] = l]
      BY <1>0, <1>a
    <3> QED
      BY <1>0, <1>1, <3>1 DEF RestartEngine
  <2> QED
    BY <2>1, <2>2, <2>3 DEF sig_handler_manual
<1> QED
  BY <1>5, <1>6, <1>7, <1>8, <1>9, <1>10, <1>11, <1>12, <1>13, <1>14 DEF Next

LEMMA LandedInit == Init => LandedInv
<1> SUFFICES ASSUME Init PROVE LandedInv
  OBVIOUS
<1>0. "top" \notin Quiet /\ "dead" \notin Quiet
  BY DEF Quiet
<1>1. cancelled = {} /\ is_on = TRUE
  BY DEF Init
<1>2. /\ {LC, SE, EX} \subseteq Threads \ GyroThreads /\ {LC, SE, EX} \cap SignalGyros = {}
      /\ LC # GU /\ SE # GU /\ EX # GU /\ EX # RL /\ EX # SE /\ EX # LC /\ EX # MA /\ EX # MAIN
      /\ EX # PE(1)
  BY Classes, SinglesDistinct, Distinct DEF Singles
<1>3. pc[LC] = "top" /\ pc[SE] = "top"
  BY <1>2 DEF Init
<1>4. pc[EX] = "dead"
  BY <1>2 DEF Init
<1>5. ASSUME NEW t \in Threads, pc[t] \in Quiet PROVE t \in Sleepers
  <2>1. t = GU \/ t \in GyroThreads
    BY <1>0, <1>5 DEF Init
  <2> QED
    BY <2>1 DEF Sleepers
<1> QED
  BY <1>1, <1>3, <1>4, <1>5 DEF LandedInv

LEMMA SleepersNext ==
  ASSUME ControlType, LandedInv, Next, NEW t \in Threads, pc'[t] \in Quiet
  PROVE  t \in Sleepers
<1>0. /\ RL \in Threads /\ GU \in Threads /\ RL # GU /\ {RL, GU} \subseteq Sleepers
      /\ GU \in Singles /\ MA \in Singles
  BY Classes, SinglesDistinct DEF Singles, Sleepers
<1>1. SignalGyros \cup GyroThreads \subseteq Sleepers
  BY DEF Sleepers
<1>2. pc[t] \in Quiet => t \in Sleepers
  BY DEF LandedInv
<1>3. Loop \notin Quiet
  BY LoopFact DEF Quiet
<1>4. ASSUME NEW u \in Threads, NEW v \in Threads, u # v, u \in Sleepers, SignalAndPause(u, v)
      PROVE  t \in Sleepers
  BY <1>2, <1>3, <1>4, SignalFacts
<1>5. CASE Ordinary
  BY <1>2, <1>5 DEF Ordinary, NoneNods
<1>6. ASSUME NEW i \in Gyros, PairSignal(i) PROVE t \in Sleepers
  <2> PICK k \in 1..Lives :
        SignalAndPause(SG(i, k), GT(i, pair[i])) \/ SignalAndPause(GT(i, k), SG(i, pair[i]))
    BY <1>6 DEF PairSignal
  <2>1. /\ SG(i, k) \in SignalGyros /\ GT(i, k) \in GyroThreads
        /\ SG(i, pair[i]) \in SignalGyros /\ GT(i, pair[i]) \in GyroThreads
    BY Names, PairNames
  <2>2. /\ SG(i, k) \in Threads /\ GT(i, k) \in Threads
        /\ SG(i, pair[i]) \in Threads /\ GT(i, pair[i]) \in Threads
        /\ SG(i, k) # GT(i, pair[i]) /\ GT(i, k) # SG(i, pair[i])
    BY <2>1, Classes
  <2> QED
    BY <1>1, <1>4, <2>1, <2>2
<1>7. CASE LandingSignal
  BY <1>0, <1>4, <1>7 DEF LandingSignal
<1>8. ASSUME NEW u \in {GU, MA}, NEW l \in {"kill", "seen"}, create_signals_gyros(u, l)
      PROVE  t \in Sleepers
  <2>1. "kill" \in Locations /\ "seen" \in Locations
    BY LocationNames
  <2>2. u \in Singles /\ l \in Locations /\ l \notin Quiet
    BY <1>0, <2>1 DEF Quiet
  <2>3. /\ pc'[u] = l /\ NewPairs \subseteq SignalGyros \cup GyroThreads
        /\ \A v \in Threads \ (NewPairs \cup {u}) : pc'[v] = pc[v]
    BY <1>8, <2>2, CreateFacts
  <2> QED
    BY <1>1, <1>2, <2>2, <2>3
<1> QED
  BY <1>5, <1>6, <1>7, <1>8, StepKinds DEF Creation

\* pthread_cancel of signal_restart_landing and go_up_30m.
LEMMA CancelEnds ==
  ASSUME ControlType, NEW T, NEW u \in Threads \ {RL, GU}, NEW l, Cancel(T, u, l),
         {RL, GU} \subseteq T
  PROVE  ClimbEnded'
<1> SUFFICES ASSUME NEW t \in {RL, GU} PROVE Ended(t)'
  BY DEF ClimbEnded
<1>1. t \in Threads /\ t \in T /\ t # u
  BY Classes DEF Singles
<1>2. Cancellable(t) => pc'[t] = "dead"
  BY <1>1 DEF Cancel
<1>3. ~Cancellable(t) => pc'[t] = pc[t]
  BY <1>1 DEF Cancel
<1>4. pc[t] # "dead" /\ ~Cancellable(t) => t \in cancelled'
  BY <1>1 DEF Cancel
<1> QED
  BY <1>2, <1>3, <1>4 DEF Ended

\* The two steps of signal_landing_check that end it, and the one that ends all.
LEMMA LanderSteps ==
  ASSUME ControlType, LandedInv, signal_landing_check
  PROVE  /\ pc[LC] = "landed" => ClimbEnded'
         /\ pc'[LC] = "dead" => pc[LC] = "landed" \/ ~is_on
         /\ is_on' = is_on \/ pc'[LC] = "landed"
<1>0. LC \in Threads \ {RL, GU} /\ LC \in Threads
  BY Classes, SinglesDistinct DEF Singles
<1>a. pc \in [Threads -> Locations]
  BY DEF ControlType
<1>1. ASSUME NEW l, Go(LC, l) PROVE pc'[LC] = l
  BY <1>0, <1>a, <1>1 DEF Go
<1>2. ASSUME NEW T, NEW l, Cancel(T, LC, l) PROVE pc'[LC] = l
  BY <1>0, <1>2 DEF Cancel
<1>3. is_on => Loop = "top"
  BY DEF Loop
<1>4. CASE DeclareLanding /\ pc[LC] = "top"
  BY <1>1, <1>4 DEF DeclareLanding, At
<1>5. CASE DeclareLanding /\ pc[LC] # "top"
  <2>1. Cancel(terminate_event_3 \cup {SE, MAIN}, LC, "dead") /\ pc[LC] = "landed" /\ is_on' = is_on
    BY <1>5 DEF DeclareLanding, At, flags
  <2>2. {RL, GU} \subseteq terminate_event_3 \cup {SE, MAIN}
    BY Targets
  <2> QED
    BY <1>0, <2>1, <2>2, CancelEnds
<1>6. CASE CutEngine
  BY <1>1, <1>2, <1>3, <1>6 DEF CutEngine, At, flags
<1>7. CASE GoOnLanding
  BY <1>1, <1>3, <1>7 DEF GoOnLanding, At, flags
<1> QED
  BY <1>4, <1>5, <1>6, <1>7 DEF signal_landing_check

LEMMA LandedNext == ControlType /\ LandedInv /\ [Next]_vars => LandedInv'
<1> SUFFICES ASSUME ControlType, LandedInv, [Next]_vars PROVE LandedInv'
  OBVIOUS
<1>1. CASE UNCHANGED vars
  BY <1>1 DEF vars, flags, LandedInv, ClimbEnded, Ended
<1>2. CASE Next
  <2>1. ClimbEnded => ClimbEnded'
    BY <1>2, EndedStable DEF ClimbEnded
  <2>2. \A t \in Threads : pc'[t] \in Quiet => t \in Sleepers
    BY <1>2, SleepersNext
  <2>3. LC \notin cancelled'
    <3>1. LC \notin cancelled
      BY DEF LandedInv
    <3>2. LC \notin CurrentPairs /\ LC \notin {GU, RL, SE, MAIN} /\ LC \notin {PE(engine), MAIN}
      BY Targets, Classes, SinglesDistinct, Distinct DEF Singles
    <3> QED
      BY <1>2, <3>1, <3>2, Cancels
  <2>4. Leave(LC) => ~is_on /\ pc[LC] = "top"
    <3>1. LC # EX
      BY SinglesDistinct
    <3> QED
      BY <3>1 DEF Leave, At
  <2>5. ~Cancelled(LC)
    BY DEF LandedInv, Cancelled
  <2>6. pc'[LC] = "dead" => ClimbEnded'
    <3>1. CASE pc[LC] = "dead"
      BY <2>1, <3>1 DEF LandedInv
    <3>2. CASE pc[LC] # "dead"
      BY <1>2, <2>1, <2>4, <2>5, <3>2, LanderEnds, LanderSteps DEF LandedInv
    <3> QED
      BY <3>1, <3>2
  <2>7. pc[LC] = "landed" => pc'[LC] = "landed" \/ ClimbEnded'
    <3>1. CASE signal_landing_check
      BY <3>1, LanderSteps
    <3>2. CASE ~signal_landing_check
      <4>1. Still(LC)
        BY <1>2, <3>2, Bystanders
      <4> QED
        BY <2>6, <4>1 DEF Still
    <3> QED
      BY <3>1, <3>2
  <2>8. ~is_on' => pc'[LC] = "landed" \/ ClimbEnded'
    <3>1. CASE is_on' = is_on
      BY <2>1, <2>7, <3>1 DEF LandedInv
    <3>2. CASE signal_landing_check
      BY <3>1, <3>2, LanderSteps
    <3>3. CASE go_up_explode
      <4>1. pc[EX] # "dead"
        BY <3>3 DEF go_up_explode, TakeGasToClimb, Compensate, Explode, At
      <4> QED
        BY <2>1, <4>1 DEF LandedInv
    <3> QED
      BY <1>2, <3>1, <3>2, <3>3, Writers
  <2>9. pc'[EX] # "dead" => ClimbEnded'
    <3>1. CASE pc[EX] # "dead"
      BY <2>1, <3>1 DEF LandedInv
    <3>2. CASE pc[EX] = "dead"
      <4>1. ~go_up_explode
        BY <3>2 DEF go_up_explode, TakeGasToClimb, Compensate, Explode, At
      <4>2. Still(EX) => pc'[EX] = "dead"
        BY <3>2 DEF Still
      <4>3. CASE signal_explote_rocket
        <5>0. EX \in Threads /\ EX # SE
          BY Classes, SinglesDistinct DEF Singles
        <5>a. pc \in [Threads -> Locations]
          BY DEF ControlType
        <5>1. CASE pc[SE] = "create"
          BY <2>1, <5>1 DEF LandedInv
        <5>2. CASE pc[SE] # "create"
          <6>1. ASSUME NEW l, Go(SE, l) PROVE pc'[EX] = "dead"
            BY <3>2, <5>0, <5>a, <6>1 DEF Go
          <6>2. ASSUME NEW T, NEW l, Cancel(T, SE, l) PROVE pc'[EX] = "dead"
            BY <3>2, <5>0, <6>2 DEF Cancel
          <6> QED
            BY <4>3, <5>2, <6>1, <6>2 DEF signal_explote_rocket, At
        <5> QED
          BY <5>1, <5>2
      <4> QED
        BY <1>2, <4>1, <4>2, <4>3, Bystanders
    <3> QED
      BY <3>1, <3>2
  <2>10. pc'[SE] = "create" => ClimbEnded'
    <3>0. SE \in Threads \ {RL, GU} /\ SE # EX
      BY Classes, SinglesDistinct DEF Singles
    <3>a. pc \in [Threads -> Locations]
      BY DEF ControlType
    <3>1. CASE signal_explote_rocket
      <4>1. CASE Cancel(terminate_event_3, SE, "create")
        <5>1. {RL, GU} \subseteq terminate_event_3
          BY Targets
        <5> QED
          BY <3>0, <4>1, <5>1, CancelEnds
      <4>2. ASSUME NEW l, Go(SE, l), l # "create" PROVE pc'[SE] # "create"
        BY <3>0, <3>a, <4>2 DEF Go
      <4>3. ASSUME NEW T, Cancel(T, SE, "abort") PROVE pc'[SE] # "create"
        BY <3>0, <4>3 DEF Cancel
      <4>4. ASSUME NEW l, pc' = [pc EXCEPT ![SE] = "dead", ![EX] = l] PROVE pc'[SE] # "create"
        BY <3>0, <3>a, <4>4
      <4>5. Loop # "create"
        BY LoopFact
      <4> QED
        BY <3>1, <4>1, <4>2, <4>3, <4>4, <4>5 DEF signal_explote_rocket
    <3>2. CASE ~signal_explote_rocket
      <4>1. Still(SE)
        BY <1>2, <3>2, Bystanders
      <4> QED
        BY <2>1, <4>1 DEF Still, LandedInv
    <3> QED
      BY <3>1, <3>2
  <2> QED
    BY <2>2, <2>3, <2>6, <2>8, <2>9, <2>10 DEF LandedInv
<1> QED
  BY <1>1, <1>2

\* Once signal_landing_check is done only threads of gyroscopes' pairs are left
\* asleep: signal_restart_landing and go_up_30m are gone, or about to go, before
\* the flag that ends every loop falls, so nobody waits for their SIGCONT.
THEOREM LandingWakesRestarters == Spec => []LandedSleepers
<1>1. Init => LandedInv
  BY LandedInit
<1>2. ControlType /\ LandedInv /\ [Next]_vars => LandedInv'
  BY LandedNext
<1>3. LandedInv => LandedSleepers
  <2>1. SUFFICES ASSUME LandedInv, pc[LC] = "dead", NEW t \in Threads, pc[t] = "asleep",
                        t \notin cancelled
                 PROVE  t \in SignalGyros \cup GyroThreads
    BY DEF LandedSleepers
  <2>2. t \in Sleepers
    BY <2>1 DEF LandedInv, Quiet
  <2>3. t # RL /\ t # GU
    BY <2>1 DEF LandedInv, ClimbEnded, Ended
  <2> QED
    BY <2>2, <2>3 DEF Sleepers
<1> QED
  BY <1>1, <1>2, <1>3, Types, PTL DEF Spec
=============================================================================
