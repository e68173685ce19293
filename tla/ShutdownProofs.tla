--------------------------- MODULE ShutdownProofs ---------------------------
(***************************************************************************)
(* What terminte_program leaves behind, for any number of masters and of   *)
(* engines sig_handler_manual creates, before or during it.                *)
(***************************************************************************)
EXTENDS Shutdown, TLAPS

Born == {e \in EngineThreads : pc[e] # "unborn"}

\* The threads and sockets terminte_program can name: of the engines ever
\* created only the last is in array_threads, and the others were cancelled
\* by manage_principal_engine when they were replaced.
ShutdownInv ==
  /\ pc \in [Threads -> Locations]
  /\ engine \in Born
  /\ FirstEngine \in Born
  /\ \A e \in Born : e # engine => e \in cancelled
  /\ step # "slaves" => FirstEngine \in cancelled
  /\ step \in {"close", "exit"} => Masters \ {Engine} \subseteq cancelled
  /\ open \subseteq (Masters \ {Engine}) \cup Born
  /\ step = "exit" => open \subseteq EngineThreads /\ (~Restarted => open = {})

LEMMA ThreadNames ==
  /\ EngineThreads \subseteq Threads
  /\ FirstEngine \in EngineThreads
  /\ EngineThreads \cap Masters = {}
  /\ {Alarm, Lander, Exploder} \subseteq Threads \ EngineThreads
  /\ Threads \subseteq (Masters \ {Engine}) \cup EngineThreads
  BY SlotsAssumption, EngineAssumption DEF Threads

\* A step that creates no engine and cancels nobody.
Keeps ==
  /\ engine' = engine
  /\ cancelled' = cancelled
  /\ pc' \in [Threads -> Locations]
  /\ \A t \in Threads : pc'[t] = "unborn" <=> pc[t] = "unborn"

LEMMA GoToKeeps ==
  ASSUME pc \in [Threads -> Locations], NEW t \in Threads, pc[t] # "unborn",
         NEW loc \in Locations \ {"unborn"}, GoTo(t, loc),
         engine' = engine, cancelled' = cancelled
  PROVE  Keeps
  BY DEF GoTo, Keeps

LEMMA ThreadKeeps ==
  ASSUME pc \in [Threads -> Locations], NEW t \in Threads, ThreadStep(t)
  PROVE  Keeps
<1> USE DEF At, restVars, Locations, InSend
<1>1. CASE Work(t)
  BY <1>1, GoToKeeps DEF Work
<1>2. CASE LoopExit(t)
  BY <1>2, GoToKeeps DEF LoopExit
<1>3. CASE TakeSock(t)
  BY <1>3, GoToKeeps DEF TakeSock
<1>4. CASE SendDone(t)
  BY <1>4, GoToKeeps DEF SendDone
<1>5. CASE SendAgain(t)
  BY <1>5 DEF SendAgain, Keeps
<1>6. CASE TakeRead(t)
  BY <1>6, GoToKeeps DEF TakeRead
<1>7. CASE Count(t)
  <2>1. AfterSend(t) \in Locations \ {"unborn"}
    BY DEF AfterSend
  <2> QED
    BY <1>7, <2>1, GoToKeeps DEF Count
<1>8. CASE Wake(t)
  BY <1>8, GoToKeeps DEF Wake
<1>9. CASE Kill(t)
  <2>1. AfterKill(t) \in Locations \ {"unborn"}
    BY DEF AfterKill
  <2> QED
    BY <1>9, <2>1, GoToKeeps DEF Kill
<1>10. CASE Cancelled(t)
  BY <1>10, GoToKeeps DEF Cancelled
<1> QED
  BY <1>1, <1>2, <1>3, <1>4, <1>5, <1>6, <1>7, <1>8, <1>9, <1>10 DEF ThreadStep

\* Only sig_handler_manual, on the codes 101 and 102, changes the engine.
Restarts(new) ==
  /\ pc[new] = "unborn"
  /\ cancelled' = cancelled \cup {engine}
  /\ engine' = new
  /\ pc' = [pc EXCEPT ![Alarm] = "sock", ![new] = "work"]

LEMMA RoundFrame ==
  ASSUME pc \in [Threads -> Locations], Next
  PROVE  Keeps \/ \E new \in EngineThreads : Restarts(new)
<1> USE ThreadNames DEF At, restVars, crewVars
<1>1. CASE \E t \in Threads : ThreadStep(t)
  BY <1>1, ThreadKeeps
<1>2. CASE Abort
  BY <1>2, GoToKeeps DEF Abort, Locations
<1>3. CASE Land
  BY <1>3, GoToKeeps DEF Land, Locations
<1>4. CASE AlarmStep
  <2> PICK code \in AlarmCodes :
        \/ HandleAlarm(code)
        \/ \E new \in EngineThreads : RestartEngine(code, new)
        \/ Swallow(code)
    BY <1>4 DEF AlarmStep
  <2>1. CASE HandleAlarm(code)
    BY <2>1, GoToKeeps DEF HandleAlarm, Locations
  <2>2. CASE \E new \in EngineThreads : RestartEngine(code, new)
    BY <2>2 DEF RestartEngine, Restarts
  <2>3. CASE Swallow(code)
    BY <2>3, GoToKeeps DEF Swallow, Locations
  <2> QED
    BY <2>1, <2>2, <2>3
<1>5. CASE MainStep
  BY <1>5 DEF Keeps, MainStep, MainLoop, MainReturn, MainTake, MainReset, MainPass,
       MainPost, MainUnlock
<1>6. CASE SigHandlerMain
  BY <1>6 DEF Keeps, SigHandlerMain
<1>7. CASE Ended
  BY <1>7 DEF Keeps, Ended, vars
<1> QED
  BY <1>1, <1>2, <1>3, <1>4, <1>5, <1>6, <1>7 DEF Next

-----------------------------------------------------------------------------
(* The invariant.                                                          *)

LEMMA ShutdownInvInit == ShutdownInit => ShutdownInv
<1> SUFFICES ASSUME ShutdownInit PROVE ShutdownInv
  OBVIOUS
<1> USE ThreadNames DEF ShutdownInit, Init
<1>1. Born = {FirstEngine}
  BY DEF Born
<1>2. pc \in [Threads -> Locations]
  BY DEF Locations
<1> QED
  BY <1>1, <1>2 DEF ShutdownInv

LEMMA RoundPreserves == ASSUME ShutdownInv, RoundStep PROVE ShutdownInv'
<1> USE ThreadNames DEF ShutdownInv, Born, Restarted
<1>1. CASE Keeps
  <2>1. open' = open /\ step' = step
    BY <1>1 DEF Keeps, RoundStep
  <2>2. Born' = Born /\ Restarted' = Restarted
    BY <1>1 DEF Keeps
  <2> QED
    BY <1>1, <2>1, <2>2 DEF Keeps
<1>2. ASSUME NEW new \in EngineThreads, Restarts(new) PROVE ShutdownInv'
  <2> USE <1>2 DEF Restarts
  <2>1. new # engine /\ new # FirstEngine
    OBVIOUS
  <2>2. open' = open \cup {new} /\ step' = step
    BY <2>1 DEF RoundStep
  <2>3. pc' \in [Threads -> Locations]
    BY DEF Locations
  <2>4. Born' = Born \cup {new}
    OBVIOUS
  <2>5. Restarted'
    BY <2>1
  <2> QED
    BY <2>1, <2>2, <2>3, <2>4, <2>5
<1>3. Keeps \/ \E new \in EngineThreads : Restarts(new)
  BY RoundFrame DEF RoundStep
<1> QED
  BY <1>1, <1>2, <1>3

LEMMA HandlerPreserves ==
  ASSUME ShutdownInv,
         CancelSlaves \/ CancelNoThread \/ PostAll \/ CancelMasters \/ CloseSockets \/ Exit
  PROVE  ShutdownInv'
<1> USE ThreadNames DEF ShutdownInv, InHandler, mainVars, restVars
<1>0. Born' = Born /\ Restarted' = Restarted /\ pc' = pc /\ engine' = engine
  BY DEF Born, Restarted, CancelSlaves, CancelNoThread, PostAll, CancelMasters,
     CloseSockets, Exit, vars
<1>1. CASE CancelSlaves
  BY <1>0, <1>1 DEF CancelSlaves
<1>2. CASE CancelNoThread
  BY <1>0, <1>2 DEF CancelNoThread
<1>3. CASE PostAll
  BY <1>0, <1>3 DEF PostAll
<1>4. CASE CancelMasters
  BY <1>0, <1>4 DEF CancelMasters
<1>5. CASE CloseSockets
  <2>1. open' \subseteq Born
    BY <1>5 DEF CloseSockets
  <2>2. ~Restarted => Born = {FirstEngine} /\ engine = FirstEngine
    BY DEF Restarted, Born
  <2>3. ~Restarted => open' = {}
    BY <1>5, <2>1, <2>2 DEF CloseSockets
  <2>4. open' \subseteq EngineThreads
    BY <2>1 DEF Born
  <2>5. step' = "exit" /\ step = "close" /\ cancelled' = cancelled
    BY <1>5 DEF CloseSockets, vars
  <2> QED
    BY <1>0, <2>1, <2>3, <2>4, <2>5
<1>6. CASE Exit
  BY <1>0, <1>6 DEF Exit
<1> QED
  BY <1>1, <1>2, <1>3, <1>4, <1>5, <1>6

LEMMA ShutdownInvNext == ShutdownInv /\ [ShutdownNext]_shutdownVars => ShutdownInv'
<1> SUFFICES ASSUME ShutdownInv, [ShutdownNext]_shutdownVars PROVE ShutdownInv'
  OBVIOUS
<1>1. CASE RoundStep
  BY <1>1, RoundPreserves
<1>2. CASE CancelSlaves \/ CancelNoThread \/ PostAll \/ CancelMasters \/ CloseSockets \/ Exit
  BY <1>2, HandlerPreserves
<1>3. CASE UNCHANGED shutdownVars
  BY <1>3 DEF shutdownVars, vars, restVars, ShutdownInv, Born, Restarted
<1> QED
  BY <1>1, <1>2, <1>3 DEF ShutdownNext

\* How far terminte_program has got decides who has been told to stop and which
\* sockets are closed, while the crew and sig_handler_manual go on.
THEOREM ShutdownInvariant == ShutdownSpec => []ShutdownInv
<1>1. ShutdownInit => ShutdownInv
  BY ShutdownInvInit
<1>2. ShutdownInv /\ [ShutdownNext]_shutdownVars => ShutdownInv'
  BY ShutdownInvNext
<1> QED
  BY <1>1, <1>2, PTL DEF ShutdownSpec

-----------------------------------------------------------------------------
(* The theorems.                                                           *)

\* Whatever the interleaving of terminte_program with the crew, the one thread
\* that can outlive its pthread_cancel loops is an engine created after the
\* first of them: array_threads[2] was read too early.
THEOREM OnlyAnEngineSurvives == ShutdownSpec => []OnlyLateEngine
<1>1. ShutdownInv => OnlyLateEngine
  <2> SUFFICES ASSUME ShutdownInv, step \in {"close", "exit"}, NEW t \in Survivors
               PROVE  Restarted /\ t = engine
    BY DEF OnlyLateEngine
  <2>1. t \in Threads /\ t \notin cancelled /\ pc[t] # "unborn"
    BY DEF Survivors
  <2>2. t \in Born
    BY <2>1, ThreadNames DEF ShutdownInv, Born
  <2>3. t = engine
    BY <2>1, <2>2 DEF ShutdownInv
  <2>4. FirstEngine \in cancelled
    BY DEF ShutdownInv
  <2> QED
    BY <2>1, <2>2, <2>3, <2>4 DEF Restarted, Born
<1> QED
  BY <1>1, ShutdownInvariant, PTL

\* The sockets terminte_program does not close are engines', and there is none
\* when no engine was ever replaced.
THEOREM SocketsLeftAreEngines == ShutdownSpec => []SocketsLeft
<1>1. ShutdownInv => SocketsLeft
  BY DEF ShutdownInv, SocketsLeft
<1> QED
  BY <1>1, ShutdownInvariant, PTL
=============================================================================
