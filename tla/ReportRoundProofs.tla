-------------------------- MODULE ReportRoundProofs -------------------------
(***************************************************************************)
(* What is true of the reporting round for any number of masters, any      *)
(* number of restarted engines and any alarm codes.                        *)
(***************************************************************************)
EXTENDS ReportRound, FiniteSetTheorems, TLAPS

-----------------------------------------------------------------------------
(* Types and mutual exclusion.                                             *)

PostIndex == main_pc = "post" => posting < NUM_SCK_THREAD

BaseInv == TypeOK /\ SockExclusion /\ ReadExclusion /\ PostIndex

\* Every thread has a slot, and the named threads are threads.
LEMMA ThreadFacts ==
  /\ \A t \in Threads : Slot(t) \in Masters
  /\ EngineThreads \subseteq Threads
  /\ {Alarm, Lander, Exploder} \subseteq Threads
  /\ EngineThreads \cap {Alarm, Lander, Exploder} = {}
  /\ NUM_SCK_THREAD \in Nat /\ NUM_SCK_THREAD > 0
  BY SlotsAssumption, EngineAssumption DEF Slot, Threads, Masters

LEMMA BaseInit == Init => BaseInv
<1> SUFFICES ASSUME Init PROVE BaseInv
  OBVIOUS
<1>1. \A t \in Threads : pc[t] \in {"unborn", "work"}
  BY DEF Init
<1>2. TypeOK
  <2>1. pc \in [Threads -> Locations]
    BY DEF Init, Locations
  <2>2. sem_msg \in [Masters -> Nat]
    BY DEF Init
  <2>3. numsec \in 1..MAXTRY /\ posting \in 0..NUM_SCK_THREAD
    BY TryAssumption, ThreadFacts DEF Init
  <2> QED
    BY <2>1, <2>2, <2>3, EngineAssumption DEF TypeOK, Init, MainLocations
<1> QED
  BY <1>1, <1>2
  DEF BaseInv, SockExclusion, ReadExclusion, PostIndex, Init, InSend, MainHolds

\* A step of the body, of the send or of the wait preserves the base invariant.
LEMMA BaseThread ==
  ASSUME BaseInv, NEW t \in Threads, ThreadStep(t)
  PROVE  BaseInv'
<1> USE ThreadFacts DEF At, GoTo, roundVars, mainVars, restVars
<1>0. TypeOK /\ SockExclusion /\ ReadExclusion /\ PostIndex
  BY DEF BaseInv
<1>1. CASE Work(t)
  <2>1. TypeOK'
    BY <1>1, <1>0 DEF TypeOK, Locations, InSend, MainLocations, MainHolds, Work
  <2>2. SockExclusion'
    BY <1>1, <1>0 DEF TypeOK, SockExclusion, InSend, Work
  <2>3. ReadExclusion'
    BY <1>1, <1>0 DEF TypeOK, SockExclusion, ReadExclusion, InSend, Work
  <2>4. PostIndex'
    BY <1>1, <1>0 DEF PostIndex, Work
  <2> QED
    BY <2>1, <2>2, <2>3, <2>4 DEF BaseInv
<1>2. CASE LoopExit(t)
  <2>1. TypeOK'
    BY <1>2, <1>0 DEF TypeOK, Locations, InSend, MainLocations, MainHolds, LoopExit
  <2>2. SockExclusion'
    BY <1>2, <1>0 DEF TypeOK, SockExclusion, InSend, LoopExit
  <2>3. ReadExclusion'
    BY <1>2, <1>0 DEF TypeOK, SockExclusion, ReadExclusion, InSend, LoopExit
  <2>4. PostIndex'
    BY <1>2, <1>0 DEF PostIndex, LoopExit
  <2> QED
    BY <2>1, <2>2, <2>3, <2>4 DEF BaseInv
<1>3. CASE TakeSock(t)
  <2>1. TypeOK'
    BY <1>3, <1>0, TryAssumption DEF TypeOK, Locations, InSend, MainLocations, MainHolds, TakeSock
  <2>2. SockExclusion'
    BY <1>3, <1>0 DEF TypeOK, SockExclusion, InSend, TakeSock
  <2>3. ReadExclusion'
    BY <1>3, <1>0 DEF TypeOK, SockExclusion, ReadExclusion, InSend, TakeSock
  <2>4. PostIndex'
    BY <1>3, <1>0 DEF PostIndex, TakeSock
  <2> QED
    BY <2>1, <2>2, <2>3, <2>4 DEF BaseInv
<1>4. CASE SendDone(t)
  <2>1. TypeOK'
    BY <1>4, <1>0 DEF TypeOK, Locations, InSend, MainLocations, MainHolds, SendDone
  <2>2. SockExclusion'
    BY <1>4, <1>0 DEF TypeOK, SockExclusion, InSend, SendDone
  <2>3. ReadExclusion'
    BY <1>4, <1>0 DEF TypeOK, SockExclusion, ReadExclusion, InSend, SendDone
  <2>4. PostIndex'
    BY <1>4, <1>0 DEF PostIndex, SendDone
  <2> QED
    BY <2>1, <2>2, <2>3, <2>4 DEF BaseInv
<1>5. CASE SendAgain(t)
  <2>1. TypeOK'
    BY <1>5, <1>0, TryAssumption DEF TypeOK, Locations, InSend, MainLocations, MainHolds, SendAgain
  <2>2. SockExclusion'
    BY <1>5, <1>0 DEF TypeOK, SockExclusion, InSend, SendAgain
  <2>3. ReadExclusion'
    BY <1>5, <1>0 DEF TypeOK, SockExclusion, ReadExclusion, InSend, SendAgain
  <2>4. PostIndex'
    BY <1>5, <1>0 DEF PostIndex, SendAgain
  <2> QED
    BY <2>1, <2>2, <2>3, <2>4 DEF BaseInv
<1>6. CASE TakeRead(t)
  <2>1. TypeOK'
    BY <1>6, <1>0 DEF TypeOK, Locations, InSend, MainLocations, MainHolds, TakeRead
  <2>2. SockExclusion'
    BY <1>6, <1>0 DEF TypeOK, SockExclusion, InSend, TakeRead
  <2>3. ReadExclusion'
    BY <1>6, <1>0 DEF TypeOK, SockExclusion, ReadExclusion, InSend, TakeRead
  <2>4. PostIndex'
    BY <1>6, <1>0 DEF PostIndex, TakeRead
  <2> QED
    BY <2>1, <2>2, <2>3, <2>4 DEF BaseInv
<1>7. CASE Count(t)
  <2>0. sem_sock = 0 /\ sem_read = 0 /\ pc[t] = "count"
    BY <1>0, <1>7 DEF Count, TypeOK, SockExclusion, ReadExclusion, InSend
  <2>1. TypeOK'
    BY <1>7, <1>0, <2>0 DEF TypeOK, Locations, Count, AfterSend
  <2>2. SockExclusion'
    BY <1>7, <1>0, <2>0 DEF TypeOK, SockExclusion, InSend, Count, AfterSend
  <2>3. ReadExclusion'
    BY <1>7, <1>0, <2>0 DEF TypeOK, SockExclusion, ReadExclusion, InSend, Count, AfterSend
  <2>4. PostIndex'
    BY <1>7, <1>0 DEF PostIndex, Count
  <2> QED
    BY <2>1, <2>2, <2>3, <2>4 DEF BaseInv
<1>8. CASE Wake(t)
  <2>0. sem_msg' \in [Masters -> Nat]
    <3> DEFINE m == Slot(t)
    <3>1. m \in Masters /\ sem_msg[m] \in Nat /\ sem_msg[m] > 0
      BY <1>0, <1>8 DEF Wake, TypeOK
    <3>2. sem_msg' = [sem_msg EXCEPT ![m] = sem_msg[m] - 1]
      BY <1>8 DEF Wake
    <3> HIDE DEF m
    <3>3. sem_msg[m] - 1 \in Nat
      BY <3>1
    <3> QED
      BY <3>1, <3>2, <3>3, <1>0 DEF TypeOK
  <2>1. TypeOK'
    BY <1>8, <1>0, <2>0 DEF TypeOK, Locations, MainLocations, Wake
  <2>2. SockExclusion'
    BY <1>8, <1>0 DEF TypeOK, SockExclusion, InSend, Wake
  <2>3. ReadExclusion'
    BY <1>8, <1>0 DEF TypeOK, SockExclusion, ReadExclusion, InSend, Wake
  <2>4. PostIndex'
    BY <1>8, <1>0 DEF PostIndex, Wake
  <2> QED
    BY <2>1, <2>2, <2>3, <2>4 DEF BaseInv
<1>9. CASE Kill(t)
  <2>1. TypeOK'
    BY <1>9, <1>0 DEF TypeOK, Locations, InSend, MainLocations, MainHolds, Kill, AfterKill
  <2>2. SockExclusion'
    BY <1>9, <1>0 DEF TypeOK, SockExclusion, InSend, Kill, AfterKill
  <2>3. ReadExclusion'
    BY <1>9, <1>0 DEF TypeOK, SockExclusion, ReadExclusion, InSend, Kill, AfterKill
  <2>4. PostIndex'
    BY <1>9, <1>0 DEF PostIndex, Kill
  <2> QED
    BY <2>1, <2>2, <2>3, <2>4 DEF BaseInv
<1>10. CASE Cancelled(t)
  <2>1. TypeOK'
    BY <1>10, <1>0 DEF TypeOK, Locations, InSend, MainLocations, MainHolds, Cancelled
  <2>2. SockExclusion'
    BY <1>10, <1>0 DEF TypeOK, SockExclusion, InSend, Cancelled
  <2>3. ReadExclusion'
    BY <1>10, <1>0 DEF TypeOK, SockExclusion, ReadExclusion, InSend, Cancelled
  <2>4. PostIndex'
    BY <1>10, <1>0 DEF PostIndex, Cancelled
  <2> QED
    BY <2>1, <2>2, <2>3, <2>4 DEF BaseInv
<1> QED
  BY <1>1, <1>2, <1>3, <1>4, <1>5, <1>6, <1>7, <1>8, <1>9, <1>10 DEF ThreadStep

\* So do the bodies that touch the round.
LEMMA BaseBody ==
  ASSUME BaseInv, Abort \/ Land \/ AlarmStep
  PROVE  BaseInv'
<1> USE ThreadFacts DEF At, GoTo, roundVars, mainVars, restVars
<1>0. TypeOK /\ SockExclusion /\ ReadExclusion /\ PostIndex
  BY DEF BaseInv
<1>1. CASE Abort
  <2>1. TypeOK'
    BY <1>1, <1>0 DEF TypeOK, Locations, Abort
  <2>2. SockExclusion'
    BY <1>1, <1>0 DEF TypeOK, SockExclusion, InSend, Abort
  <2>3. ReadExclusion'
    BY <1>1, <1>0 DEF TypeOK, ReadExclusion, Abort
  <2>4. PostIndex'
    BY <1>1, <1>0 DEF PostIndex, Abort
  <2> QED
    BY <2>1, <2>2, <2>3, <2>4 DEF BaseInv
<1>2. CASE Land
  <2>1. TypeOK'
    BY <1>2, <1>0 DEF TypeOK, Locations, Land
  <2>2. SockExclusion'
    BY <1>2, <1>0 DEF TypeOK, SockExclusion, InSend, Land
  <2>3. ReadExclusion'
    BY <1>2, <1>0 DEF TypeOK, ReadExclusion, Land
  <2>4. PostIndex'
    BY <1>2, <1>0 DEF PostIndex, Land
  <2> QED
    BY <2>1, <2>2, <2>3, <2>4 DEF BaseInv
<1>3. ASSUME NEW code \in AlarmCodes, HandleAlarm(code) PROVE BaseInv'
  <2>1. TypeOK'
    BY <1>3, <1>0 DEF TypeOK, Locations, HandleAlarm
  <2>2. SockExclusion'
    BY <1>3, <1>0 DEF TypeOK, SockExclusion, InSend, HandleAlarm
  <2>3. ReadExclusion'
    BY <1>3, <1>0 DEF TypeOK, ReadExclusion, HandleAlarm
  <2>4. PostIndex'
    BY <1>3, <1>0 DEF PostIndex, HandleAlarm
  <2> QED
    BY <2>1, <2>2, <2>3, <2>4 DEF BaseInv
<1>4. ASSUME NEW code \in AlarmCodes, NEW new \in EngineThreads, RestartEngine(code, new)
      PROVE  BaseInv'
  <2>1. TypeOK'
    BY <1>4, <1>0 DEF TypeOK, Locations, RestartEngine
  <2>2. SockExclusion'
    BY <1>4, <1>0 DEF TypeOK, SockExclusion, InSend, RestartEngine
  <2>3. ReadExclusion'
    BY <1>4, <1>0 DEF TypeOK, ReadExclusion, RestartEngine
  <2>4. PostIndex'
    BY <1>4, <1>0 DEF PostIndex, RestartEngine
  <2> QED
    BY <2>1, <2>2, <2>3, <2>4 DEF BaseInv
<1>5. ASSUME NEW code \in AlarmCodes, Swallow(code) PROVE BaseInv'
  <2>1. TypeOK'
    BY <1>5, <1>0 DEF TypeOK, Locations, Swallow
  <2>2. SockExclusion'
    BY <1>5, <1>0 DEF TypeOK, SockExclusion, InSend, Swallow
  <2>3. ReadExclusion'
    BY <1>5, <1>0 DEF TypeOK, ReadExclusion, Swallow
  <2>4. PostIndex'
    BY <1>5, <1>0 DEF PostIndex, Swallow
  <2> QED
    BY <2>1, <2>2, <2>3, <2>4 DEF BaseInv
<1> QED
  BY <1>1, <1>2, <1>3, <1>4, <1>5 DEF AlarmStep

\* And the steps of main.
LEMMA BaseMain ==
  ASSUME BaseInv, MainStep \/ SigHandlerMain
  PROVE  BaseInv'
<1> USE ThreadFacts DEF AtMain, crewVars
<1>0. TypeOK /\ SockExclusion /\ ReadExclusion /\ PostIndex
  BY DEF BaseInv
<1>1. CASE MainLoop
  <2>1. TypeOK'
    BY <1>1, <1>0 DEF TypeOK, MainLocations, MainHolds, MainLoop
  <2>2. SockExclusion'
    BY <1>1, <1>0 DEF SockExclusion, MainLoop
  <2>3. ReadExclusion'
    BY <1>1, <1>0 DEF TypeOK, ReadExclusion, MainHolds, MainLoop
  <2>4. PostIndex'
    BY <1>1, <1>0 DEF PostIndex, MainLoop
  <2> QED
    BY <2>1, <2>2, <2>3, <2>4 DEF BaseInv
<1>2. CASE MainReturn
  <2>1. TypeOK'
    BY <1>2, <1>0 DEF TypeOK, MainLocations, MainHolds, MainReturn
  <2>2. SockExclusion'
    BY <1>2, <1>0 DEF SockExclusion, MainReturn
  <2>3. ReadExclusion'
    BY <1>2, <1>0 DEF TypeOK, ReadExclusion, MainHolds, MainReturn
  <2>4. PostIndex'
    BY <1>2, <1>0 DEF PostIndex, MainReturn
  <2> QED
    BY <2>1, <2>2, <2>3, <2>4 DEF BaseInv
<1>3. CASE MainTake
  <2>1. TypeOK'
    BY <1>3, <1>0 DEF TypeOK, MainLocations, MainHolds, MainTake
  <2>2. SockExclusion'
    BY <1>3, <1>0 DEF SockExclusion, MainTake
  <2>3. ReadExclusion'
    BY <1>3, <1>0 DEF TypeOK, ReadExclusion, MainHolds, MainTake
  <2>4. PostIndex'
    BY <1>3, <1>0 DEF PostIndex, MainTake
  <2> QED
    BY <2>1, <2>2, <2>3, <2>4 DEF BaseInv
<1>4. CASE MainReset
  <2>1. TypeOK'
    BY <1>4, <1>0 DEF TypeOK, MainLocations, MainHolds, MainReset
  <2>2. SockExclusion'
    BY <1>4, <1>0 DEF SockExclusion, MainReset
  <2>3. ReadExclusion'
    BY <1>4, <1>0 DEF TypeOK, ReadExclusion, MainHolds, MainReset
  <2>4. PostIndex'
    BY <1>4, <1>0 DEF PostIndex, MainReset
  <2> QED
    BY <2>1, <2>2, <2>3, <2>4 DEF BaseInv
<1>5. CASE MainPass
  <2>1. TypeOK'
    BY <1>5, <1>0 DEF TypeOK, MainLocations, MainHolds, MainPass
  <2>2. SockExclusion'
    BY <1>5, <1>0 DEF SockExclusion, MainPass
  <2>3. ReadExclusion'
    BY <1>5, <1>0 DEF TypeOK, ReadExclusion, MainHolds, MainPass
  <2>4. PostIndex'
    BY <1>5, <1>0 DEF PostIndex, MainPass
  <2> QED
    BY <2>1, <2>2, <2>3, <2>4 DEF BaseInv
<1>6. CASE MainPost
  <2>0. posting \in Masters /\ posting + 1 \in 0..NUM_SCK_THREAD
    BY <1>0, <1>6 DEF MainPost, TypeOK, PostIndex, Masters
  <2>1. TypeOK'
    BY <1>6, <1>0, <2>0 DEF TypeOK, MainLocations, MainHolds, MainPost
  <2>2. SockExclusion'
    BY <1>6, <1>0 DEF SockExclusion, MainPost
  <2>3. ReadExclusion'
    BY <1>6, <1>0 DEF TypeOK, ReadExclusion, MainHolds, MainPost
  <2>4. PostIndex'
    BY <1>6, <1>0, <2>0 DEF PostIndex, MainPost
  <2> QED
    BY <2>1, <2>2, <2>3, <2>4 DEF BaseInv
<1>7. CASE MainUnlock
  <2>1. TypeOK'
    BY <1>7, <1>0 DEF TypeOK, ReadExclusion, MainLocations, MainHolds, MainUnlock
  <2>2. SockExclusion'
    BY <1>7, <1>0 DEF SockExclusion, MainUnlock
  <2>3. ReadExclusion'
    BY <1>7, <1>0 DEF TypeOK, ReadExclusion, MainHolds, MainUnlock
  <2>4. PostIndex'
    BY <1>7, <1>0 DEF PostIndex, MainUnlock
  <2> QED
    BY <2>1, <2>2, <2>3, <2>4 DEF BaseInv
<1>8. CASE SigHandlerMain
  <2>1. TypeOK'
    BY <1>8, <1>0 DEF TypeOK, MainLocations, MainHolds, SigHandlerMain
  <2>2. SockExclusion'
    BY <1>8, <1>0 DEF SockExclusion, SigHandlerMain
  <2>3. ReadExclusion'
    BY <1>8, <1>0 DEF TypeOK, ReadExclusion, MainHolds, SigHandlerMain
  <2>4. PostIndex'
    BY <1>8, <1>0 DEF PostIndex, SigHandlerMain
  <2> QED
    BY <2>1, <2>2, <2>3, <2>4 DEF BaseInv
<1> QED
  BY <1>1, <1>2, <1>3, <1>4, <1>5, <1>6, <1>7, <1>8 DEF MainStep

LEMMA BaseNext == BaseInv /\ [Next]_vars => BaseInv'
<1> SUFFICES ASSUME BaseInv, [Next]_vars PROVE BaseInv'
  OBVIOUS
<1>1. CASE UNCHANGED vars
  BY <1>1 DEF vars, roundVars, mainVars, restVars, BaseInv, TypeOK, SockExclusion, ReadExclusion, PostIndex
<1> QED
  BY <1>1, BaseThread, BaseBody, BaseMain DEF Next, Ended

LEMMA BaseAlways == Spec => []BaseInv
  BY BaseInit, BaseNext, PTL DEF Spec

\* Every variable keeps its type; sem_sock and sem_read stay binary.
THEOREM TypeCorrect == Spec => []TypeOK
  BY BaseAlways, PTL DEF BaseInv

\* One thread at a time is inside send_mesg, cancellations or not.
THEOREM SockMutex == Spec => []SockExclusion
  BY BaseAlways, PTL DEF BaseInv

\* msg_read and the release of the round have one owner at a time.
THEOREM ReadMutex == Spec => []ReadExclusion
  BY BaseAlways, PTL DEF BaseInv

\* sem_read is never lost: no cancellation point lies between its wait and its
\* post, so whoever took it, or main's loop, is there to post it.
THEOREM ReadNeverLost == Spec => []ReadReturned
<1> USE DEF MainHolds
<1>1. Init => ReadReturned
  BY DEF Init, ReadReturned
<1>2. BaseInv /\ ReadReturned /\ [Next]_vars => ReadReturned'
  <2> SUFFICES ASSUME TypeOK, ReadReturned, [Next]_vars PROVE ReadReturned'
    BY DEF BaseInv
  <2> USE ThreadFacts DEF ReadReturned
  <2>1. CASE UNCHANGED vars
    BY <2>1 DEF vars, roundVars, mainVars
  <2>2. ASSUME NEW t \in Threads, ThreadStep(t) PROVE ReadReturned'
    <3> USE <2>2 DEF At, GoTo, roundVars, mainVars
    <3>1. CASE Count(t)
      BY <3>1 DEF TypeOK, Count
    <3>2. CASE TakeRead(t)
      BY <3>2 DEF TypeOK, TakeRead
    <3>3. CASE SendAgain(t)
      BY <3>3 DEF SendAgain
    <3>4. CASE ~Count(t) /\ ~TakeRead(t) /\ ~SendAgain(t)
      <4>1. pc[t] # "count" /\ sem_read' = sem_read /\ main_pc' = main_pc
        BY <3>4 DEF ThreadStep, Work, LoopExit, TakeSock, SendDone, Wake, Kill, Cancelled
      <4>2. PICK loc : pc' = [pc EXCEPT ![t] = loc]
        BY <3>4 DEF ThreadStep, Work, LoopExit, TakeSock, SendDone, Wake, Kill, Cancelled
      <4> QED
        BY <4>1, <4>2 DEF TypeOK
    <3> QED
      BY <3>1, <3>2, <3>3, <3>4
  <2>3. CASE Abort \/ Land \/ AlarmStep
    BY <2>3 DEF TypeOK, Abort, Land, AlarmStep, HandleAlarm, RestartEngine, Swallow, At, GoTo,
       roundVars, mainVars
  <2>4. CASE MainStep \/ SigHandlerMain
    BY <2>4 DEF TypeOK, AtMain, crewVars, MainStep, MainLoop, MainReturn, MainTake, MainReset,
       MainPass, MainPost, MainUnlock, SigHandlerMain
  <2> QED
    BY <2>1, <2>2, <2>3, <2>4 DEF Next, Ended
<1> QED
  BY <1>1, <1>2, BaseAlways, PTL DEF Spec

-----------------------------------------------------------------------------
(***************************************************************************)
(* The round, until sig_handler_manual disturbs it.                        *)
(***************************************************************************)

\* The threads there are while no engine has been restarted, one per slot.
Crew == (Masters \ {Engine}) \cup {FirstEngine}

\* The thread has yet to report in the round under way.
Busy(t) == \/ pc[t] \in {"work", "sock", "send", "read", "count"}
           \/ pc[t] = "kill" /\ t = Exploder

\* A slot is posted once per round, and only when main has come to it.
PostedOnce ==
  \A m \in Masters : sem_msg[m] \in {0, 1} /\ (sem_msg[m] = 1 => m < posting)

\* Who has yet to report has taken the post of the round before.
BusyTook == \A t \in Crew : Busy(t) => sem_msg[Slot(t)] = 0 /\ Slot(t) < posting

AbortPlace ==
  /\ \A t \in aborting : t # Exploder => pc[t] \in {"sock", "send", "read", "count", "kill"}
  /\ Lander \in aborting \/ pc[Lander] = "kill" => ~is_on

FirstCrew ==
  /\ cancelled = {} /\ engine = FirstEngine
  /\ \A t \in Crew : pc[t] # "unborn"
  /\ is_on => \A t \in Crew : pc[t] \notin {"landed", "gone"}

PostingOver == main_pc \notin {"post", "handler"} => posting = NUM_SCK_THREAD

RoundInv ==
  PostedOnce /\ BusyTook /\ AbortPlace /\ FirstCrew /\ PostingOver /\ SockReturned

\* Each slot has one thread of the first crew.
LEMMA CrewFacts ==
  /\ Crew \subseteq Threads
  /\ {Alarm, Lander, Exploder, FirstEngine} \subseteq Crew
  /\ \A t, u \in Crew : Slot(t) = Slot(u) => t = u
  /\ \A m \in Masters : \E t \in Crew : Slot(t) = m
  /\ Threads \ Crew = EngineThreads \ {FirstEngine}
  /\ \A t \in Crew : Slot(t) \in Masters
  BY SlotsAssumption, EngineAssumption DEF Slot, Threads, Crew, Masters

\* While no engine has been restarted a slot's report is its thread's.
LEMMA ReportedBy ==
  ASSUME ~Restarted, NEW t \in Crew
  PROVE  Slot(t) \in Reported <=>
           sem_msg[Slot(t)] = 0 /\ Slot(t) < posting /\ HasReported(t)
<1>1. \A u \in Threads : Slot(u) = Slot(t) /\ HasReported(u) => u = t
  BY CrewFacts DEF Restarted, HasReported
<1> QED
  BY <1>1, CrewFacts DEF Reported

\* A thread that moves between two places on the same side of its report
\* changes nobody's report.
LEMMA SameReports ==
  ASSUME TypeOK, NEW t \in Threads, NEW loc, pc' = [pc EXCEPT ![t] = loc],
         HasReported(t)' <=> HasReported(t),
         sem_msg' = sem_msg, posting' = posting
  PROVE  Reported' = Reported
<1>1. \A u \in Threads : HasReported(u)' <=> HasReported(u)
  BY DEF HasReported, TypeOK
<1>2. \A u \in Threads : Slot(u)' = Slot(u)
  BY DEF Slot
<1> QED
  BY <1>1, <1>2 DEF Reported

\* An engine once created and a code once swallowed stay so.
LEMMA UndisturbedBefore ==
  ASSUME TypeOK, [Next]_vars, Undisturbed'
  PROVE  Undisturbed
<1> USE ThreadFacts DEF At, GoTo, roundVars, mainVars, restVars
<1>1. Undisturbed <=> ~swallowed /\ \A t \in EngineThreads \ {FirstEngine} : pc[t] = "unborn"
  BY DEF Undisturbed, Restarted
<1>2. Undisturbed' <=> ~swallowed' /\ \A t \in EngineThreads \ {FirstEngine} : pc'[t] = "unborn"
  BY DEF Undisturbed, Restarted
<1>3. SUFFICES /\ swallowed => swallowed'
               /\ \A u \in Threads : pc'[u] = "unborn" => pc[u] = "unborn"
  BY <1>1, <1>2
<1>4. CASE UNCHANGED vars
  BY <1>4 DEF vars
<1>5. ASSUME NEW t \in Threads, ThreadStep(t) PROVE <1>3!1
  <2>1. CASE SendAgain(t)
    BY <2>1 DEF SendAgain
  <2>2. CASE ~SendAgain(t)
    BY <1>5, <2>2 DEF TypeOK, ThreadStep, Work, LoopExit, TakeSock, SendDone, TakeRead, Count,
       Wake, Kill, Cancelled, AfterSend, AfterKill
  <2> QED
    BY <2>1, <2>2
<1>6. CASE Abort \/ Land \/ AlarmStep
  BY <1>6 DEF TypeOK, Abort, Land, AlarmStep, HandleAlarm, RestartEngine, Swallow
<1>7. CASE MainStep \/ SigHandlerMain
  BY <1>7 DEF AtMain, crewVars, MainStep, MainLoop, MainReturn, MainTake, MainReset, MainPass,
     MainPost, MainUnlock, SigHandlerMain
<1> QED
  BY <1>4, <1>5, <1>6, <1>7 DEF Next, Ended

\* In a round nobody has disturbed, the steps of the threads keep its invariant.
LEMMA RoundThread ==
  ASSUME BaseInv, RoundInv, NEW t \in Crew, ThreadStep(t)
  PROVE  RoundInv'
<1> USE CrewFacts, ThreadFacts DEF At, GoTo, roundVars, mainVars, restVars
<1>0. TypeOK /\ RoundInv
  BY DEF BaseInv
<1>a. \A u \in Crew : Slot(u)' = Slot(u)
  BY DEF Slot
<1> USE <1>0, <1>a
<1>1. CASE Work(t)
  <2>1. PostedOnce'
    BY <1>1 DEF RoundInv, PostedOnce, TypeOK, Work
  <2>2. BusyTook'
    BY <1>1 DEF RoundInv, BusyTook, PostedOnce, AbortPlace, Busy, TypeOK, Work
  <2>3. AbortPlace'
    BY <1>1 DEF RoundInv, AbortPlace, TypeOK, Work
  <2>4. FirstCrew'
    BY <1>1 DEF RoundInv, FirstCrew, AbortPlace, TypeOK, Work
  <2>5. PostingOver'
    BY <1>1 DEF RoundInv, PostingOver, Work
  <2>6. SockReturned'
    BY <1>1 DEF RoundInv, SockReturned, InSend, TypeOK, Work
  <2> QED
    BY <2>1, <2>2, <2>3, <2>4, <2>5, <2>6 DEF RoundInv
<1>2. CASE LoopExit(t)
  <2>1. PostedOnce'
    BY <1>2 DEF RoundInv, PostedOnce, TypeOK, LoopExit
  <2>2. BusyTook'
    BY <1>2 DEF RoundInv, BusyTook, PostedOnce, AbortPlace, Busy, TypeOK, LoopExit
  <2>3. AbortPlace'
    BY <1>2 DEF RoundInv, AbortPlace, TypeOK, LoopExit
  <2>4. FirstCrew'
    BY <1>2 DEF RoundInv, FirstCrew, AbortPlace, TypeOK, LoopExit
  <2>5. PostingOver'
    BY <1>2 DEF RoundInv, PostingOver, LoopExit
  <2>6. SockReturned'
    BY <1>2 DEF RoundInv, SockReturned, InSend, TypeOK, LoopExit
  <2> QED
    BY <2>1, <2>2, <2>3, <2>4, <2>5, <2>6 DEF RoundInv
<1>3. CASE TakeSock(t)
  <2>1. PostedOnce'
    BY <1>3 DEF RoundInv, PostedOnce, TypeOK, TakeSock
  <2>2. BusyTook'
    BY <1>3 DEF RoundInv, BusyTook, PostedOnce, AbortPlace, Busy, TypeOK, TakeSock
  <2>3. AbortPlace'
    BY <1>3 DEF RoundInv, AbortPlace, TypeOK, TakeSock
  <2>4. FirstCrew'
    BY <1>3 DEF RoundInv, FirstCrew, AbortPlace, TypeOK, TakeSock
  <2>5. PostingOver'
    BY <1>3 DEF RoundInv, PostingOver, TakeSock
  <2>6. SockReturned'
    BY <1>3 DEF RoundInv, SockReturned, InSend, TypeOK, TakeSock
  <2> QED
    BY <2>1, <2>2, <2>3, <2>4, <2>5, <2>6 DEF RoundInv
<1>4. CASE SendDone(t)
  <2>1. PostedOnce'
    BY <1>4 DEF RoundInv, PostedOnce, TypeOK, SendDone
  <2>2. BusyTook'
    BY <1>4 DEF RoundInv, BusyTook, PostedOnce, AbortPlace, Busy, TypeOK, SendDone
  <2>3. AbortPlace'
    BY <1>4 DEF RoundInv, AbortPlace, TypeOK, SendDone
  <2>4. FirstCrew'
    BY <1>4 DEF RoundInv, FirstCrew, AbortPlace, TypeOK, SendDone
  <2>5. PostingOver'
    BY <1>4 DEF RoundInv, PostingOver, SendDone
  <2>6. SockReturned'
    BY <1>4 DEF RoundInv, SockReturned, InSend, TypeOK, SendDone
  <2> QED
    BY <2>1, <2>2, <2>3, <2>4, <2>5, <2>6 DEF RoundInv
<1>5. CASE SendAgain(t)
  <2>1. PostedOnce'
    BY <1>5 DEF RoundInv, PostedOnce, TypeOK, SendAgain
  <2>2. BusyTook'
    BY <1>5 DEF RoundInv, BusyTook, PostedOnce, AbortPlace, Busy, TypeOK, SendAgain
  <2>3. AbortPlace'
    BY <1>5 DEF RoundInv, AbortPlace, TypeOK, SendAgain
  <2>4. FirstCrew'
    BY <1>5 DEF RoundInv, FirstCrew, AbortPlace, TypeOK, SendAgain
  <2>5. PostingOver'
    BY <1>5 DEF RoundInv, PostingOver, SendAgain
  <2>6. SockReturned'
    BY <1>5 DEF RoundInv, SockReturned, InSend, TypeOK, SendAgain
  <2> QED
    BY <2>1, <2>2, <2>3, <2>4, <2>5, <2>6 DEF RoundInv
<1>6. CASE TakeRead(t)
  <2>1. PostedOnce'
    BY <1>6 DEF RoundInv, PostedOnce, TypeOK, TakeRead
  <2>2. BusyTook'
    BY <1>6 DEF RoundInv, BusyTook, PostedOnce, AbortPlace, Busy, TypeOK, TakeRead
  <2>3. AbortPlace'
    BY <1>6 DEF RoundInv, AbortPlace, TypeOK, TakeRead
  <2>4. FirstCrew'
    BY <1>6 DEF RoundInv, FirstCrew, AbortPlace, TypeOK, TakeRead
  <2>5. PostingOver'
    BY <1>6 DEF RoundInv, PostingOver, TakeRead
  <2>6. SockReturned'
    BY <1>6 DEF RoundInv, SockReturned, InSend, TypeOK, TakeRead
  <2> QED
    BY <2>1, <2>2, <2>3, <2>4, <2>5, <2>6 DEF RoundInv
<1>7. CASE Count(t)
  <2>1. PostedOnce'
    BY <1>7 DEF RoundInv, PostedOnce, TypeOK, Count
  <2>2. BusyTook'
    BY <1>7 DEF RoundInv, BusyTook, PostedOnce, AbortPlace, Busy, TypeOK, Count, AfterSend
  <2>3. AbortPlace'
    BY <1>7 DEF RoundInv, AbortPlace, TypeOK, Count, AfterSend
  <2>4. FirstCrew'
    BY <1>7 DEF RoundInv, FirstCrew, AbortPlace, TypeOK, Count, AfterSend
  <2>5. PostingOver'
    BY <1>7 DEF RoundInv, PostingOver, Count
  <2>6. SockReturned'
    BY <1>7 DEF RoundInv, SockReturned, InSend, TypeOK, Count, AfterSend
  <2> QED
    BY <2>1, <2>2, <2>3, <2>4, <2>5, <2>6 DEF RoundInv
<1>8. CASE Wake(t)
  <2>1. PostedOnce'
    BY <1>8 DEF RoundInv, PostedOnce, TypeOK, Wake
  <2>2. BusyTook'
    BY <1>8 DEF RoundInv, BusyTook, PostedOnce, AbortPlace, Busy, TypeOK, Wake
  <2>3. AbortPlace'
    BY <1>8 DEF RoundInv, AbortPlace, TypeOK, Wake
  <2>4. FirstCrew'
    BY <1>8 DEF RoundInv, FirstCrew, AbortPlace, TypeOK, Wake
  <2>5. PostingOver'
    BY <1>8 DEF RoundInv, PostingOver, Wake
  <2>6. SockReturned'
    BY <1>8 DEF RoundInv, SockReturned, InSend, TypeOK, Wake
  <2> QED
    BY <2>1, <2>2, <2>3, <2>4, <2>5, <2>6 DEF RoundInv
<1>9. CASE Kill(t)
  <2>1. PostedOnce'
    BY <1>9 DEF RoundInv, PostedOnce, TypeOK, Kill
  <2>2. BusyTook'
    BY <1>9 DEF RoundInv, BusyTook, PostedOnce, AbortPlace, Busy, TypeOK, Kill, AfterKill
  <2>3. AbortPlace'
    BY <1>9 DEF RoundInv, AbortPlace, TypeOK, Kill, AfterKill
  <2>4. FirstCrew'
    BY <1>9 DEF RoundInv, FirstCrew, AbortPlace, TypeOK, Kill, AfterKill
  <2>5. PostingOver'
    BY <1>9 DEF RoundInv, PostingOver, Kill
  <2>6. SockReturned'
    BY <1>9 DEF RoundInv, SockReturned, InSend, TypeOK, Kill, AfterKill
  <2> QED
    BY <2>1, <2>2, <2>3, <2>4, <2>5, <2>6 DEF RoundInv
<1>10. ~Cancelled(t)
  BY DEF RoundInv, FirstCrew, Cancelled
<1> QED
  BY <1>1, <1>2, <1>3, <1>4, <1>5, <1>6, <1>7, <1>8, <1>9, <1>10 DEF ThreadStep

\* So do the bodies that neither restart the engine nor swallow a code.
LEMMA RoundBody ==
  ASSUME BaseInv, RoundInv,
         Abort \/ Land \/ \E code \in AlarmCodes : HandleAlarm(code)
  PROVE  RoundInv'
<1> USE CrewFacts, ThreadFacts DEF At, GoTo, roundVars, mainVars, restVars
<1>0. TypeOK /\ RoundInv
  BY DEF BaseInv
<1>a. \A u \in Crew : Slot(u)' = Slot(u)
  BY DEF Slot
<1> USE <1>0, <1>a
<1>b. Alarm # Lander /\ Alarm # Exploder /\ Lander # Exploder
  BY SlotsAssumption
<1>1. CASE Abort
  <2>1. PostedOnce' /\ BusyTook'
    BY <1>1 DEF RoundInv, PostedOnce, BusyTook, Busy, TypeOK, Abort
  <2>2. AbortPlace'
    BY <1>1, <1>b DEF RoundInv, AbortPlace, TypeOK, Abort
  <2>3. FirstCrew'
    BY <1>1 DEF RoundInv, FirstCrew, TypeOK, Abort
  <2>4. PostingOver' /\ SockReturned'
    BY <1>1 DEF RoundInv, PostingOver, SockReturned, InSend, TypeOK, Abort
  <2> QED
    BY <2>1, <2>2, <2>3, <2>4 DEF RoundInv
<1>2. CASE Land
  <2>1. PostedOnce' /\ BusyTook'
    BY <1>2 DEF RoundInv, PostedOnce, BusyTook, Busy, TypeOK, Land
  <2>2. AbortPlace'
    BY <1>2, <1>b DEF RoundInv, AbortPlace, TypeOK, Land
  <2>3. FirstCrew'
    BY <1>2 DEF RoundInv, FirstCrew, TypeOK, Land
  <2>4. PostingOver' /\ SockReturned'
    BY <1>2 DEF RoundInv, PostingOver, SockReturned, InSend, TypeOK, Land
  <2> QED
    BY <2>1, <2>2, <2>3, <2>4 DEF RoundInv
<1>3. ASSUME NEW code \in AlarmCodes, HandleAlarm(code) PROVE RoundInv'
  <2>1. PostedOnce' /\ BusyTook'
    BY <1>3 DEF RoundInv, PostedOnce, BusyTook, Busy, TypeOK, HandleAlarm
  <2>2. AbortPlace'
    BY <1>3, <1>b DEF RoundInv, AbortPlace, TypeOK, HandleAlarm
  <2>3. FirstCrew'
    BY <1>3 DEF RoundInv, FirstCrew, TypeOK, HandleAlarm
  <2>4. PostingOver' /\ SockReturned'
    BY <1>3 DEF RoundInv, PostingOver, SockReturned, InSend, TypeOK, HandleAlarm
  <2> QED
    BY <2>1, <2>2, <2>3, <2>4 DEF RoundInv
<1> QED
  BY <1>1, <1>2, <1>3

\* When msg_read says so, every thread of the crew has reported.
LEMMA AllReported ==
  ASSUME TypeOK, Undisturbed, RoundCount, RoundOver
  PROVE  /\ Reported = Masters
         /\ \A t \in Crew : sem_msg[Slot(t)] = 0 /\ HasReported(t)
<1>1. IsFiniteSet(Masters) /\ Cardinality(Masters) = NUM_SCK_THREAD
  BY ThreadFacts, FS_Interval DEF Masters
<1>2. Reported \subseteq Masters
  BY DEF Reported
<1>3. Cardinality(Reported) = Cardinality(Masters)
  BY <1>1 DEF RoundCount, RoundOver
<1>4. Reported = Masters
  BY <1>1, <1>2, <1>3, FS_Subset
<1> QED
  BY <1>4, ReportedBy, CrewFacts DEF Undisturbed

\* And the steps of main, given what msg_read counts.
LEMMA RoundMain ==
  ASSUME BaseInv, Undisturbed, RoundInv, RoundCount, MainStep \/ SigHandlerMain
  PROVE  RoundInv'
<1> USE CrewFacts, ThreadFacts DEF AtMain, crewVars
<1>0. TypeOK /\ RoundInv
  BY DEF BaseInv
<1>a. \A u \in Crew : Slot(u)' = Slot(u) /\ (Busy(u)' <=> Busy(u))
  BY DEF Slot, Busy, MainStep, MainLoop, MainReturn, MainTake, MainReset, MainPass, MainPost,
     MainUnlock, SigHandlerMain
<1> USE <1>0, <1>a
<1>1. AbortPlace' /\ FirstCrew' /\ SockReturned'
  BY DEF RoundInv, AbortPlace, FirstCrew, SockReturned, MainStep, MainLoop, MainReturn,
     MainTake, MainReset, MainPass, MainPost, MainUnlock, SigHandlerMain
<1>2. CASE MainReset
  <2>1. \A t \in Crew : sem_msg[Slot(t)] = 0 /\ HasReported(t)
    BY <1>2, AllReported DEF MainReset
  <2>2. \A m \in Masters : sem_msg[m] = 0
    BY <2>1
  <2>3. \A t \in Crew : ~Busy(t)
    BY <2>1 DEF Busy, HasReported
  <2>4. PostedOnce' /\ BusyTook' /\ PostingOver'
    BY <1>2, <2>2, <2>3 DEF MainReset, PostedOnce, BusyTook, PostingOver
  <2> QED
    BY <1>1, <2>4 DEF RoundInv
<1>3. CASE MainPost
  <2>1. posting \in Masters /\ posting \in Nat /\ sem_msg[posting] = 0
    <3>1. posting \in 0..NUM_SCK_THREAD /\ posting < NUM_SCK_THREAD
      BY <1>3 DEF MainPost, BaseInv, TypeOK, PostIndex
    <3>2. posting \in Masters /\ posting \in Nat
      BY <3>1 DEF Masters
    <3>3. ~(posting < posting)
      BY <3>1
    <3> QED
      BY <3>2, <3>3 DEF RoundInv, PostedOnce
  <2>2. sem_msg' = [sem_msg EXCEPT ![posting] = 1] /\ posting' = posting + 1
    BY <1>3, <2>1 DEF MainPost
  <2>3. \A m \in Masters : m \in Nat
    BY DEF Masters
  <2>4. PostedOnce'
    BY <2>1, <2>2, <2>3 DEF RoundInv, PostedOnce, TypeOK
  <2>5. ASSUME NEW t \in Crew, Busy(t) PROVE sem_msg'[Slot(t)] = 0 /\ Slot(t) < posting'
    <3>1. Slot(t) \in Masters /\ sem_msg[Slot(t)] = 0 /\ Slot(t) < posting
      BY <2>5 DEF RoundInv, BusyTook
    <3>2. Slot(t) \in Nat
      BY <3>1, <2>3
    <3>3. \A a, b \in Nat : a < b => a # b /\ a < b + 1
      OBVIOUS
    <3>4. Slot(t) # posting /\ Slot(t) < posting + 1
      BY <3>1, <3>2, <3>3, <2>1
    <3> QED
      BY <3>1, <3>4, <2>1, <2>2 DEF TypeOK
  <2>6. PostingOver' /\ BusyTook'
    BY <1>3, <2>5 DEF MainPost, PostingOver, BusyTook
  <2> QED
    BY <1>1, <2>4, <2>6 DEF RoundInv
<1>4. CASE ~MainReset /\ ~MainPost
  <2>1. sem_msg' = sem_msg /\ posting' = posting
    BY <1>4 DEF MainStep, MainLoop, MainReturn, MainTake, MainPass, MainUnlock, SigHandlerMain
  <2>2. PostedOnce' /\ BusyTook'
    BY <2>1 DEF RoundInv, PostedOnce, BusyTook
  <2>3. PostingOver'
    BY <1>4, <2>1 DEF RoundInv, PostingOver, MainStep, MainLoop, MainReturn, MainTake,
       MainPass, MainUnlock, SigHandlerMain
  <2> QED
    BY <1>1, <2>2, <2>3 DEF RoundInv
<1> QED
  BY <1>2, <1>3, <1>4

\* A step of an undisturbed round is nobody's report, one slot's, or the release.
RoundStep ==
  \/ Reported' = Reported /\ msg_read' = msg_read
  \/ \E m \in Masters \ Reported :
       Reported' = Reported \cup {m} /\ msg_read' = msg_read + 1
  \/ Reported = Masters /\ Reported' = {} /\ msg_read' = 0

LEMMA StepThread ==
  ASSUME BaseInv, Undisturbed, Undisturbed', RoundInv, NEW t \in Crew, ThreadStep(t)
  PROVE  RoundStep
<1> USE CrewFacts, ThreadFacts DEF At, GoTo, roundVars, mainVars, restVars
<1>0. TypeOK /\ RoundInv /\ t \in Threads
  BY DEF BaseInv
<1> USE <1>0
<1>1. CASE Count(t)
  <2> DEFINE m == Slot(t)
  <2>1. pc[t] = "count" /\ pc' = [pc EXCEPT ![t] = AfterSend(t)]
        /\ sem_msg' = sem_msg /\ posting' = posting /\ msg_read' = msg_read + 1
    BY <1>1 DEF Count
  <2>2. m \in Masters /\ sem_msg[m] = 0 /\ m < posting
    BY <2>1 DEF RoundInv, BusyTook, Busy
  <2>3. m \notin Reported
    BY <2>1, ReportedBy DEF Undisturbed, HasReported
  <2>4. HasReported(t)'
    BY <2>1 DEF AfterSend, HasReported, TypeOK
  <2>5. m \in Reported'
    BY <2>1, <2>2, <2>4 DEF Reported, Slot
  <2>6. \A u \in Threads : u # t => (HasReported(u)' <=> HasReported(u))
    BY <2>1 DEF HasReported, TypeOK
  <2>7. \A n \in Masters : n # m => (n \in Reported' <=> n \in Reported)
    BY <2>1, <2>6 DEF Reported, Slot
  <2>8. Reported \subseteq Masters /\ Reported' \subseteq Masters
    BY DEF Reported
  <2>9. Reported' = Reported \cup {m}
    BY <2>2, <2>5, <2>7, <2>8
  <2> QED
    BY <2>1, <2>2, <2>3, <2>9 DEF RoundStep
<1>2. CASE Wake(t)
  <2> DEFINE m == Slot(t)
  <2>1. pc[t] = "msg" /\ sem_msg[m] > 0 /\ posting' = posting /\ msg_read' = msg_read
        /\ pc' = [pc EXCEPT ![t] = IF t \in aborting THEN "kill" ELSE "work"]
        /\ sem_msg' = [sem_msg EXCEPT ![m] = sem_msg[m] - 1]
    BY <1>2 DEF Wake
  <2>2. t \in aborting => t = Exploder
    BY <2>1 DEF RoundInv, AbortPlace
  <2>3. ~HasReported(t)'
    BY <2>1, <2>2 DEF HasReported, TypeOK
  <2>4. m \notin Reported
    BY <2>1 DEF Reported
  <2>5. m \notin Reported'
    <3>1. \A u \in Threads : Slot(u)' = m /\ HasReported(u)' => u \in Crew
      BY <2>1 DEF Undisturbed, Restarted, HasReported, Slot
    <3> QED
      BY <2>3, <3>1 DEF Reported, Slot
  <2>6. \A u \in Threads : u # t => (HasReported(u)' <=> HasReported(u))
    BY <2>1 DEF HasReported, TypeOK
  <2>7. \A n \in Masters : n # m => sem_msg'[n] = sem_msg[n]
    BY <2>1 DEF TypeOK
  <2>8. \A n \in Masters : n # m => (n \in Reported' <=> n \in Reported)
    BY <2>1, <2>6, <2>7 DEF Reported, Slot
  <2>9. Reported' = Reported
    BY <2>4, <2>5, <2>8 DEF Reported
  <2> QED
    BY <2>1, <2>9 DEF RoundStep
<1>3. CASE SendAgain(t)
  <2>1. UNCHANGED <<pc, sem_msg, posting, msg_read>>
    BY <1>3 DEF SendAgain
  <2>2. \A u \in Threads : Slot(u)' = Slot(u) /\ (HasReported(u)' <=> HasReported(u))
    BY <2>1 DEF Slot, HasReported
  <2> QED
    BY <2>1, <2>2 DEF RoundStep, Reported
<1>4. CASE Work(t) \/ LoopExit(t) \/ TakeSock(t) \/ SendDone(t) \/ TakeRead(t) \/ Kill(t)
  <2>1. PICK loc : pc' = [pc EXCEPT ![t] = loc]
    BY <1>4 DEF Work, LoopExit, TakeSock, SendDone, TakeRead, Kill
  <2>2. HasReported(t)' <=> HasReported(t)
    BY <1>4, SlotsAssumption DEF TypeOK, HasReported, Work, LoopExit, TakeSock, SendDone,
       TakeRead, Kill, AfterKill
  <2>3. UNCHANGED <<sem_msg, posting, msg_read>>
    BY <1>4 DEF Work, LoopExit, TakeSock, SendDone, TakeRead, Kill
  <2> QED
    BY <2>1, <2>2, <2>3, SameReports DEF RoundStep
<1>5. ~Cancelled(t)
  BY DEF RoundInv, FirstCrew, Cancelled
<1> QED
  BY <1>1, <1>2, <1>3, <1>4, <1>5 DEF ThreadStep

LEMMA StepBody ==
  ASSUME BaseInv, RoundInv, Abort \/ Land \/ \E code \in AlarmCodes : HandleAlarm(code)
  PROVE  RoundStep
<1>1. PICK t \in Threads : pc[t] = "work" /\ pc' = [pc EXCEPT ![t] = "sock"]
  BY ThreadFacts DEF Abort, Land, HandleAlarm, At, GoTo
<1>2. UNCHANGED <<sem_msg, posting, msg_read>>
  BY DEF Abort, Land, HandleAlarm, roundVars, mainVars
<1>3. HasReported(t)' <=> HasReported(t)
  BY <1>1 DEF HasReported, BaseInv, TypeOK
<1> QED
  BY <1>1, <1>2, <1>3, SameReports DEF RoundStep, BaseInv

LEMMA StepMain ==
  ASSUME BaseInv, Undisturbed, RoundInv, RoundCount, MainStep \/ SigHandlerMain
  PROVE  RoundStep
<1> USE DEF AtMain, crewVars
<1>1. pc' = pc
  BY DEF MainStep, MainLoop, MainReturn, MainTake, MainReset, MainPass, MainPost, MainUnlock,
     SigHandlerMain
<1>2. \A t \in Threads : Slot(t)' = Slot(t) /\ (HasReported(t)' <=> HasReported(t))
  BY <1>1 DEF Slot, HasReported
<1>3. CASE MainReset
  <2>1. Reported = Masters
    BY <1>3, AllReported DEF MainReset, BaseInv
  <2>2. \A m \in Masters : ~(m < 0)
    BY DEF Masters
  <2>3. Reported' = {}
    BY <1>3, <2>2 DEF MainReset, Reported
  <2> QED
    BY <1>3, <2>1, <2>3 DEF MainReset, RoundStep
<1>4. CASE MainPost
  <2>1. posting \in 0..NUM_SCK_THREAD /\ posting < NUM_SCK_THREAD
    BY <1>4 DEF MainPost, BaseInv, TypeOK, PostIndex
  <2>2. \A m \in Masters : m < posting + 1 <=> m < posting \/ m = posting
    BY <2>1 DEF Masters
  <2>3. sem_msg' = [sem_msg EXCEPT ![posting] = @ + 1] /\ posting' = posting + 1
        /\ msg_read' = msg_read
    BY <1>4 DEF MainPost
  <2>4. \A m \in Masters : m # posting => sem_msg'[m] = sem_msg[m]
    BY <2>3 DEF BaseInv, TypeOK
  <2>5. posting \in Masters => sem_msg'[posting] # 0
    BY <2>3 DEF BaseInv, TypeOK
  <2>6. ~(posting < posting)
    BY <2>1
  <2>7. Reported' = Reported
    BY <2>2, <2>3, <2>4, <2>5, <2>6, <1>2 DEF Reported
  <2> QED
    BY <2>3, <2>7 DEF RoundStep
<1>5. CASE ~MainReset /\ ~MainPost
  <2>1. UNCHANGED <<sem_msg, posting, msg_read>>
    BY <1>5 DEF MainStep, MainLoop, MainReturn, MainTake, MainPass, MainUnlock, SigHandlerMain
  <2> QED
    BY <1>2, <2>1 DEF Reported, RoundStep
<1> QED
  BY <1>3, <1>4, <1>5

-----------------------------------------------------------------------------
(* The theorems about the round.                                           *)

RoundIInv == BaseInv /\ (Undisturbed => RoundInv /\ RoundCount)

LEMMA RoundInit == Init => RoundIInv
<1> SUFFICES ASSUME Init PROVE RoundInv /\ RoundCount
  BY BaseInit DEF RoundIInv
<1>1. \A t \in Crew : pc[t] = "work" /\ Slot(t) \in Masters
  BY CrewFacts, EngineAssumption DEF Init, Crew
<1>2. \A m \in Masters : m < posting /\ sem_msg[m] = 0
  BY ThreadFacts DEF Init, Masters
<1>3. PostedOnce /\ BusyTook
  BY <1>1, <1>2 DEF PostedOnce, BusyTook
<1>4. AbortPlace /\ FirstCrew /\ PostingOver /\ SockReturned
  BY <1>1, CrewFacts DEF AbortPlace, FirstCrew, PostingOver, SockReturned, Init
<1>5. \A t \in Threads : ~HasReported(t)
  BY DEF HasReported, Init
<1>6. Reported = {}
  BY <1>5 DEF Reported
<1> QED
  BY <1>3, <1>4, <1>6, FS_EmptySet DEF RoundInv, RoundCount, Init

\* Before the alarm thread disturbs it, a step keeps the invariant of the round.
LEMMA QuietStep ==
  ASSUME BaseInv, Undisturbed, Undisturbed', RoundInv, RoundCount, [Next]_vars
  PROVE  RoundInv' /\ RoundStep
<1>0. TypeOK
  BY DEF BaseInv
<1>1. CASE UNCHANGED vars
  <2>1. \A t \in Threads : Slot(t)' = Slot(t) /\ (HasReported(t)' <=> HasReported(t))
    BY <1>1 DEF vars, Slot, HasReported
  <2>2. RoundStep
    BY <1>1, <2>1 DEF vars, roundVars, mainVars, Reported, RoundStep
  <2>3. \A t \in Crew : Slot(t)' = Slot(t) /\ (Busy(t)' <=> Busy(t))
    BY <1>1 DEF vars, Slot, Busy
  <2>4. RoundInv'
    BY <1>1, <2>3 DEF vars, roundVars, mainVars, restVars, RoundInv, PostedOnce, BusyTook,
       AbortPlace, FirstCrew, PostingOver, SockReturned
  <2> QED
    BY <2>2, <2>4
<1>2. ASSUME NEW t \in Threads, ThreadStep(t) PROVE RoundInv' /\ RoundStep
  <2>1. pc[t] # "unborn"
    BY <1>2 DEF ThreadStep, Work, LoopExit, TakeSock, SendDone, SendAgain, TakeRead, Count,
       Wake, Kill, Cancelled, At
  <2>2. t \in Crew
    BY <2>1, CrewFacts DEF Undisturbed, Restarted
  <2> QED
    BY <1>2, <2>2, RoundThread, StepThread
<1>3. CASE Abort \/ Land
  BY <1>3, RoundBody, StepBody
<1>4. ASSUME NEW code \in AlarmCodes, HandleAlarm(code) PROVE RoundInv' /\ RoundStep
  BY <1>4, RoundBody, StepBody
<1>5. ASSUME NEW code \in AlarmCodes, Swallow(code) PROVE FALSE
  BY <1>5 DEF Swallow, Undisturbed
<1>6. ASSUME NEW code \in AlarmCodes, NEW new \in EngineThreads, RestartEngine(code, new)
      PROVE  FALSE
  <2>1. pc[new] = "unborn" /\ pc' = [pc EXCEPT ![Alarm] = "sock", ![new] = "work"]
    BY <1>6 DEF RestartEngine
  <2>2. new # FirstEngine
    BY <2>1, CrewFacts DEF RoundInv, FirstCrew
  <2>3. pc'[new] = "work"
    BY <1>0, <2>1, ThreadFacts DEF TypeOK
  <2> QED
    BY <2>2, <2>3 DEF Undisturbed, Restarted
<1>7. CASE MainStep \/ SigHandlerMain
  BY <1>7, RoundMain, StepMain
<1> QED
  BY <1>1, <1>2, <1>3, <1>4, <1>5, <1>6, <1>7 DEF Next, AlarmStep, Ended

\* msg_read follows the reports of a step.
LEMMA CountStep ==
  ASSUME TypeOK, RoundCount, Undisturbed, RoundStep
  PROVE  RoundCount'
<1>1. IsFiniteSet(Masters)
  BY FS_Interval, ThreadFacts DEF Masters
<1>2. IsFiniteSet(Reported) /\ msg_read = Cardinality(Reported)
  BY <1>1, FS_Subset DEF Reported, RoundCount
<1>3. ASSUME NEW m \in Masters \ Reported
      PROVE  Cardinality(Reported \cup {m}) = Cardinality(Reported) + 1
  BY <1>2, FS_AddElement
<1> QED
  BY <1>2, <1>3, FS_EmptySet DEF RoundStep, RoundCount

LEMMA RoundNext == RoundIInv /\ [Next]_vars => RoundIInv'
<1> SUFFICES ASSUME RoundIInv, [Next]_vars PROVE RoundIInv'
  OBVIOUS
<1>1. BaseInv'
  BY BaseNext DEF RoundIInv
<1>2. ASSUME Undisturbed' PROVE RoundInv' /\ RoundCount'
  <2>1. Undisturbed /\ TypeOK
    BY <1>2, UndisturbedBefore DEF RoundIInv, BaseInv
  <2>2. RoundInv' /\ RoundStep
    BY <1>2, <2>1, QuietStep DEF RoundIInv
  <2> QED
    BY <2>1, <2>2, CountStep DEF RoundIInv
<1> QED
  BY <1>1, <1>2 DEF RoundIInv

LEMMA RoundAlways == Spec => []RoundIInv
  BY RoundInit, RoundNext, PTL DEF Spec

\* msg_read is the number of slots that have reported, until the alarm thread
\* restarts the engine or swallows a code.
THEOREM CountsReports == Spec => []RoundCount
<1>1. RoundIInv => RoundCount
  BY DEF RoundIInv, RoundCount
<1> QED
  BY <1>1, RoundAlways, PTL

\* However many masters there are, the round can only be lost to a restarted
\* engine or to a swallowed code.
THEOREM HangNeedsAlarm == Spec => []HangCause
<1>1. ASSUME RoundIInv, Hung, Undisturbed PROVE FALSE
  <2>1. RoundInv /\ RoundCount /\ TypeOK
    BY <1>1 DEF RoundIInv, BaseInv
  <2>2. is_on /\ posting = NUM_SCK_THREAD /\ ~RoundOver
    BY <1>1, <2>1 DEF Hung, RoundInv, PostingOver
  <2>3. ASSUME NEW t \in Crew PROVE pc[t] = "msg" /\ sem_msg[Slot(t)] = 0
    <3>1. Parked(t) /\ pc[t] \notin {"unborn", "landed", "gone"}
      BY <1>1, <2>1, <2>2, CrewFacts DEF Hung, RoundInv, FirstCrew
    <3>2. sem_sock = 0 => \E u \in Threads : pc[u] \in InSend
      BY <2>1 DEF RoundInv, SockReturned
    <3> QED
      BY <3>1, <3>2 DEF Parked
  <2>4. \A m \in Masters : m < posting
    BY <2>2, ThreadFacts DEF Masters
  <2>5. \A t \in Crew : Slot(t) \in Reported
    BY <1>1, <2>3, <2>4, CrewFacts, ReportedBy DEF HasReported, Undisturbed
  <2>6. Reported = Masters
    BY <2>5, CrewFacts DEF Reported
  <2>7. Cardinality(Masters) = NUM_SCK_THREAD
    BY ThreadFacts, FS_Interval DEF Masters
  <2> QED
    BY <1>1, <2>1, <2>2, <2>6, <2>7 DEF RoundCount, RoundOver
<1>2. RoundIInv => HangCause
  BY <1>1 DEF HangCause, Undisturbed
<1> QED
  BY <1>2, RoundAlways, PTL

\* Only the alarm thread's restarts and unknown codes disturb the round.
LEMMA StaysUndisturbed ==
  ASSUME AlarmCodes \subseteq ReportedCodes \ RestartCodes,
         TypeOK, Undisturbed, [Next]_vars
  PROVE  Undisturbed'
<1> USE DEF At, GoTo, roundVars, mainVars, restVars
<1>1. ~swallowed /\ \A u \in EngineThreads \ {FirstEngine} : pc[u] = "unborn"
  BY DEF Undisturbed, Restarted
<1>2. SUFFICES ~swallowed' /\ \A u \in EngineThreads \ {FirstEngine} : pc'[u] = pc[u]
  BY <1>1 DEF Undisturbed, Restarted
<1>3. CASE UNCHANGED vars
  BY <1>1, <1>3 DEF vars
<1>4. ASSUME NEW t \in Threads, ThreadStep(t) PROVE <1>2!1
  <2>1. CASE SendAgain(t)
    BY <1>1, <2>1 DEF SendAgain
  <2>2. CASE ~SendAgain(t)
    <3>1. pc[t] # "unborn" /\ swallowed' = swallowed
      BY <1>4, <2>2 DEF ThreadStep, Work, LoopExit, TakeSock, SendDone, TakeRead, Count,
         Wake, Kill, Cancelled
    <3>2. \E loc : pc' = [pc EXCEPT ![t] = loc]
      BY <1>4, <2>2 DEF ThreadStep, Work, LoopExit, TakeSock, SendDone, TakeRead, Count,
         Wake, Kill, Cancelled
    <3>3. EngineThreads \subseteq Threads
      BY ThreadFacts
    <3> QED
      BY <1>1, <3>1, <3>2, <3>3 DEF TypeOK
  <2> QED
    BY <2>1, <2>2
<1>5. CASE Abort \/ Land \/ \E code \in AlarmCodes : HandleAlarm(code)
  <2>1. \E t \in {Exploder, Lander, Alarm} : pc' = [pc EXCEPT ![t] = "sock"]
    BY <1>5 DEF Abort, Land, HandleAlarm
  <2>2. swallowed' = swallowed
    BY <1>5 DEF Abort, Land, HandleAlarm
  <2> QED
    BY <1>1, <2>1, <2>2, ThreadFacts DEF TypeOK
<1>6. \A code \in AlarmCodes :
        ~Swallow(code) /\ \A new \in EngineThreads : ~RestartEngine(code, new)
  BY DEF Swallow, RestartEngine
<1>7. CASE MainStep \/ SigHandlerMain
  BY <1>1, <1>7 DEF AtMain, crewVars, MainStep, MainLoop, MainReturn, MainTake, MainReset,
     MainPass, MainPost, MainUnlock, SigHandlerMain
<1> QED
  BY <1>3, <1>4, <1>5, <1>6, <1>7 DEF Next, AlarmStep, Ended

\* With no restart and no unknown code the round is a barrier.
THEOREM RoundIsBarrier ==
  ASSUME AlarmCodes \subseteq ReportedCodes \ RestartCodes
  PROVE  Spec => ImplementsBarrier
<1>1. Init => Undisturbed /\ Barrier!BarrierInit
  <2> SUFFICES ASSUME Init PROVE Undisturbed /\ Reported = {}
    BY DEF Barrier!BarrierInit
  <2>1. \A t \in Threads : ~HasReported(t)
    BY DEF HasReported, Init
  <2>2. \A t \in EngineThreads \ {FirstEngine} : pc[t] = "unborn"
    BY ThreadFacts DEF Init
  <2> QED
    BY <2>1, <2>2 DEF Reported, Undisturbed, Restarted, Init
<1>2. RoundIInv /\ Undisturbed /\ [Next]_vars => Undisturbed' /\ [Barrier!BarrierNext]_Reported
  <2> SUFFICES ASSUME RoundIInv, Undisturbed, [Next]_vars
               PROVE  Undisturbed' /\ [Barrier!BarrierNext]_Reported
    OBVIOUS
  <2>1. Undisturbed'
    BY StaysUndisturbed DEF RoundIInv, BaseInv
  <2>2. RoundStep
    BY <2>1, QuietStep DEF RoundIInv
  <2> QED
    BY <2>1, <2>2 DEF RoundStep, Barrier!BarrierNext, Barrier!Release, Barrier!Report
<1> QED
  BY <1>1, <1>2, RoundAlways, PTL DEF Spec, ImplementsBarrier, Barrier!BarrierSpec

-----------------------------------------------------------------------------
(***************************************************************************)
(* How far msg_read can run past NUM_SCK_THREAD.  Every report is paid for *)
(* by a thread that is on its way to it (Due), by a post somebody may      *)
(* still take (Tokens) or by one main has still to make (Unposted); only   *)
(* an engine beyond the first brings a payment of its own.                 *)
(***************************************************************************)

Due == {t \in Threads : Busy(t)}
Tokens == {x \in Masters \X Nat : 0 < x[2] /\ x[2] <= sem_msg[x[1]]}
Unposted == {m \in Masters : m >= posting}
Born == {t \in EngineThreads : pc[t] # "unborn"}

Finite == IsFiniteSet(Due) /\ IsFiniteSet(Tokens) /\ IsFiniteSet(Born)

Budget ==
  msg_read + Cardinality(Due) + Cardinality(Tokens) + Cardinality(Unposted)
    < NUM_SCK_THREAD + Cardinality(Born)

BudgetInv == Finite /\ PostingOver /\ Budget

LEMMA MastersFinite == IsFiniteSet(Masters) /\ Cardinality(Masters) = NUM_SCK_THREAD
  BY FS_Interval, ThreadFacts DEF Masters

\* The sizes are natural numbers.
LEMMA BudgetTypes ==
  ASSUME TypeOK, Finite
  PROVE  /\ IsFiniteSet(Unposted)
         /\ Cardinality(Due) \in Nat /\ Cardinality(Tokens) \in Nat
         /\ Cardinality(Unposted) \in Nat /\ Cardinality(Born) \in Nat
<1>1. Unposted \in SUBSET Masters
  BY DEF Unposted
<1>2. IsFiniteSet(Unposted)
  BY <1>1, MastersFinite, FS_Subset
<1> QED
  BY <1>2, FS_CardinalityType DEF Finite

\* One thread's move changes Due by that thread alone.
LEMMA DueMove ==
  ASSUME TypeOK, Finite, NEW t \in Threads, NEW loc, pc' = [pc EXCEPT ![t] = loc]
  PROVE  /\ Busy(t)' => Due' = Due \cup {t}
         /\ ~Busy(t)' => Due' = Due \ {t}
         /\ IsFiniteSet(Due')
         /\ Cardinality(Due') = Cardinality(Due) + (IF Busy(t)' THEN 1 ELSE 0)
                                                - (IF Busy(t) THEN 1 ELSE 0)
<1>1. \A u \in Threads : u # t => (Busy(u)' <=> Busy(u))
  BY DEF Busy, TypeOK
<1>2. /\ Busy(t)' => Due' = Due \cup {t}
      /\ ~Busy(t)' => Due' = Due \ {t}
  BY <1>1 DEF Due
<1>3. IsFiniteSet(Due) /\ Cardinality(Due) \in Nat /\ (t \in Due <=> Busy(t))
  BY BudgetTypes DEF Finite, Due
<1>4. CASE Busy(t)'
  BY <1>2, <1>3, <1>4, FS_AddElement
<1>5. CASE ~Busy(t)'
  BY <1>2, <1>3, <1>5, FS_RemoveElement
<1> QED
  BY <1>2, <1>4, <1>5

\* A move of a thread that exists creates no engine.
LEMMA BornMove ==
  ASSUME TypeOK, NEW t \in Threads, NEW loc, pc' = [pc EXCEPT ![t] = loc],
         pc[t] # "unborn", loc # "unborn"
  PROVE  Born' = Born
  BY ThreadFacts DEF Born, TypeOK

\* sem_wait and sem_post on sem_msg[m].
LEMMA TokenTaken ==
  ASSUME TypeOK, Finite, NEW m \in Masters, sem_msg[m] > 0,
         sem_msg' = [sem_msg EXCEPT ![m] = @ - 1]
  PROVE  IsFiniteSet(Tokens') /\ Cardinality(Tokens') = Cardinality(Tokens) - 1
<1>1. sem_msg[m] \in Nat /\ \A n \in Masters : sem_msg[n] \in Nat /\ (n # m => sem_msg'[n] = sem_msg[n])
  BY DEF TypeOK
<1>2. sem_msg'[m] = sem_msg[m] - 1
  BY DEF TypeOK
<1>3. <<m, sem_msg[m]>> \in Tokens
  BY <1>1 DEF Tokens
<1>4. Tokens' = Tokens \ {<<m, sem_msg[m]>>}
  <2>1. ASSUME NEW x \in Masters \X Nat PROVE x \in Tokens' <=> x \in Tokens /\ x # <<m, sem_msg[m]>>
    BY <1>1, <1>2 DEF Tokens
  <2>2. Tokens \subseteq Masters \X Nat /\ Tokens' \subseteq Masters \X Nat
    BY DEF Tokens
  <2> QED
    BY <2>1, <2>2
<1> QED
  BY <1>3, <1>4, FS_RemoveElement DEF Finite

LEMMA TokenPosted ==
  ASSUME TypeOK, Finite, NEW m \in Masters, sem_msg' = [sem_msg EXCEPT ![m] = @ + 1]
  PROVE  IsFiniteSet(Tokens') /\ Cardinality(Tokens') = Cardinality(Tokens) + 1
<1>1. sem_msg[m] \in Nat /\ \A n \in Masters : sem_msg[n] \in Nat /\ (n # m => sem_msg'[n] = sem_msg[n])
  BY DEF TypeOK
<1>2. sem_msg'[m] = sem_msg[m] + 1
  BY DEF TypeOK
<1>3. <<m, sem_msg[m] + 1>> \notin Tokens
  BY <1>1 DEF Tokens
<1>4. Tokens' = Tokens \cup {<<m, sem_msg[m] + 1>>}
  <2>1. ASSUME NEW x \in Masters \X Nat
        PROVE  x \in Tokens' <=> x \in Tokens \/ x = <<m, sem_msg[m] + 1>>
    BY <1>1, <1>2 DEF Tokens
  <2>2. Tokens \subseteq Masters \X Nat /\ Tokens' \subseteq Masters \X Nat
        /\ <<m, sem_msg[m] + 1>> \in Masters \X Nat
    BY <1>1 DEF Tokens
  <2> QED
    BY <2>1, <2>2
<1> QED
  BY <1>3, <1>4, FS_AddElement DEF Finite

LEMMA BudgetInit == Init => BudgetInv
<1> SUFFICES ASSUME Init PROVE BudgetInv
  OBVIOUS
<1>1. Due = (Masters \ {Engine}) \cup {FirstEngine}
  BY SlotsAssumption, EngineAssumption DEF Due, Busy, Init, Threads
<1>2. IsFiniteSet(Masters \ {Engine}) /\ Cardinality(Masters \ {Engine}) = NUM_SCK_THREAD - 1
  BY MastersFinite, FS_RemoveElement, SlotsAssumption
<1>3. IsFiniteSet(Due) /\ Cardinality(Due) = NUM_SCK_THREAD
  <2> DEFINE Rest == Masters \ {Engine}
  <2>1. FirstEngine \notin Rest /\ IsFiniteSet(Rest) /\ Cardinality(Rest) = NUM_SCK_THREAD - 1
    BY <1>2, EngineAssumption
  <2>2. Due = Rest \cup {FirstEngine}
    BY <1>1
  <2> HIDE DEF Rest
  <2>3. Cardinality(Rest \cup {FirstEngine}) = Cardinality(Rest) + 1
        /\ IsFiniteSet(Rest \cup {FirstEngine})
    BY <2>1, FS_AddElement
  <2> QED
    BY <2>1, <2>2, <2>3, ThreadFacts
<1>4. Born = {FirstEngine}
  BY EngineAssumption, ThreadFacts DEF Born, Init
<1>5. Tokens = {} /\ Unposted = {}
  BY ThreadFacts DEF Tokens, Unposted, Init, Masters
<1>6. IsFiniteSet(Born) /\ Cardinality(Born) = 1
  BY <1>4, FS_Singleton
<1>7. IsFiniteSet(Tokens) /\ Cardinality(Tokens) = 0 /\ Cardinality(Unposted) = 0
  BY <1>5, FS_EmptySet
<1>8. msg_read = 0 /\ posting = NUM_SCK_THREAD
  BY DEF Init
<1> QED
  BY <1>3, <1>6, <1>7, <1>8, ThreadFacts DEF BudgetInv, Finite, Budget, PostingOver

LEMMA BudgetThread ==
  ASSUME BaseInv, BudgetInv, NEW t \in Threads, ThreadStep(t)
  PROVE  BudgetInv'
<1> USE ThreadFacts DEF At, GoTo, roundVars, mainVars, restVars
<1>0. TypeOK /\ Finite /\ PostingOver /\ Budget /\ msg_read \in Nat
  BY DEF BaseInv, BudgetInv, TypeOK
<1>1. CASE SendAgain(t)
  <2>1. Due' = Due /\ Tokens' = Tokens /\ Unposted' = Unposted /\ Born' = Born
    BY <1>1 DEF SendAgain, Due, Busy, Tokens, Unposted, Born
  <2> QED
    BY <1>0, <1>1, <2>1 DEF SendAgain, BudgetInv, Finite, PostingOver, Budget
<1>2. CASE ~SendAgain(t)
  <2>1. PICK loc : pc' = [pc EXCEPT ![t] = loc] /\ loc # "unborn"
    BY <1>2 DEF ThreadStep, Work, LoopExit, TakeSock, SendDone, TakeRead, Count, Wake, Kill,
       Cancelled, AfterSend, AfterKill
  <2>2. pc[t] # "unborn" /\ UNCHANGED <<main_pc, posting>>
    BY <1>2 DEF ThreadStep, Work, LoopExit, TakeSock, SendDone, TakeRead, Count, Wake, Kill,
       Cancelled
  <2>3. Born' = Born /\ Unposted' = Unposted
    BY <1>0, <2>1, <2>2, BornMove DEF Unposted
  <2>4. PostingOver'
    BY <1>0, <2>2 DEF PostingOver
  <2>5. IsFiniteSet(Due') /\ Cardinality(Due') = Cardinality(Due) + (IF Busy(t)' THEN 1 ELSE 0)
                                                                 - (IF Busy(t) THEN 1 ELSE 0)
    BY <1>0, <2>1, DueMove
  <2>6. /\ Cardinality(Due) \in Nat /\ Cardinality(Tokens) \in Nat
        /\ Cardinality(Unposted) \in Nat /\ Cardinality(Born) \in Nat
    BY <1>0, BudgetTypes
  <2>7. CASE Count(t)
    <3>1. Busy(t) /\ ~Busy(t)' /\ msg_read' = msg_read + 1 /\ sem_msg' = sem_msg
      BY <1>0, <2>7 DEF Count, AfterSend, Busy, TypeOK
    <3>2. Tokens' = Tokens
      BY <3>1 DEF Tokens
    <3> QED
      BY <1>0, <2>3, <2>4, <2>5, <2>6, <3>1, <3>2 DEF BudgetInv, Finite, Budget
  <2>8. CASE Wake(t)
    <3>1. Slot(t) \in Masters /\ sem_msg[Slot(t)] > 0
          /\ sem_msg' = [sem_msg EXCEPT ![Slot(t)] = @ - 1] /\ msg_read' = msg_read
      BY <2>8 DEF Wake
    <3>2. IsFiniteSet(Tokens') /\ Cardinality(Tokens') = Cardinality(Tokens) - 1
      BY <1>0, <3>1, TokenTaken
    <3>3. ~Busy(t)
      BY <2>8 DEF Wake, Busy
    <3> QED
      BY <1>0, <2>3, <2>4, <2>5, <2>6, <3>1, <3>2, <3>3 DEF BudgetInv, Finite, Budget
  <2>9. CASE ~Count(t) /\ ~Wake(t)
    <3>1. UNCHANGED <<msg_read, sem_msg>>
      BY <1>2, <2>9 DEF ThreadStep, Work, LoopExit, TakeSock, SendDone, TakeRead, Kill, Cancelled
    <3>2. Busy(t)' => Busy(t)
      BY <1>0, <1>2, <2>9 DEF ThreadStep, Work, LoopExit, TakeSock, SendDone, TakeRead, Kill,
         Cancelled, AfterKill, Busy, TypeOK
    <3>3. Tokens' = Tokens
      BY <3>1 DEF Tokens
    <3> QED
      BY <1>0, <2>3, <2>4, <2>5, <2>6, <3>1, <3>2, <3>3 DEF BudgetInv, Finite, Budget
  <2> QED
    BY <2>7, <2>8, <2>9
<1> QED
  BY <1>1, <1>2

LEMMA BudgetBody ==
  ASSUME BaseInv, BudgetInv, Abort \/ Land \/ AlarmStep
  PROVE  BudgetInv'
<1> USE ThreadFacts DEF At, GoTo, roundVars, mainVars, restVars
<1>0. TypeOK /\ Finite /\ PostingOver /\ Budget /\ msg_read \in Nat
  BY DEF BaseInv, BudgetInv, TypeOK
<1>1. /\ Cardinality(Due) \in Nat /\ Cardinality(Tokens) \in Nat
      /\ Cardinality(Unposted) \in Nat /\ Cardinality(Born) \in Nat
  BY <1>0, BudgetTypes
<1>2. UNCHANGED <<msg_read, sem_msg, posting, main_pc>>
  BY DEF Abort, Land, AlarmStep, HandleAlarm, RestartEngine, Swallow
<1>3. Tokens' = Tokens /\ Unposted' = Unposted /\ PostingOver'
  BY <1>0, <1>2 DEF Tokens, Unposted, PostingOver
<1>4. CASE Abort \/ Land \/ \E code \in AlarmCodes : HandleAlarm(code) \/ Swallow(code)
  <2>1. PICK t \in Threads, loc \in {"sock", "msg"} : pc[t] = "work" /\ pc' = [pc EXCEPT ![t] = loc]
    BY <1>4 DEF Abort, Land, HandleAlarm, Swallow
  <2>2. Born' = Born
    BY <1>0, <2>1, BornMove
  <2>3. Busy(t)
    BY <2>1 DEF Busy
  <2>4. IsFiniteSet(Due') /\ Cardinality(Due') <= Cardinality(Due)
    <3>1. IsFiniteSet(Due') /\ Cardinality(Due') = Cardinality(Due) + (IF Busy(t)' THEN 1 ELSE 0)
                                                                   - (IF Busy(t) THEN 1 ELSE 0)
      BY <1>0, <2>1, DueMove
    <3> QED
      BY <1>1, <2>3, <3>1
  <2>5. Cardinality(Due') \in Nat
    BY <2>4, FS_CardinalityType
  <2> QED
    BY <1>0, <1>1, <1>2, <1>3, <2>2, <2>4, <2>5 DEF BudgetInv, Finite, Budget
<1>5. ASSUME NEW code \in AlarmCodes, NEW new \in EngineThreads, RestartEngine(code, new)
      PROVE  BudgetInv'
  <2>1. pc[new] = "unborn" /\ pc[Alarm] = "work"
        /\ pc' = [pc EXCEPT ![Alarm] = "sock", ![new] = "work"]
    BY <1>5 DEF RestartEngine
  <2>2. new \in Threads /\ Alarm \in Threads /\ Alarm \notin EngineThreads /\ new # Alarm
    OBVIOUS
  <2>3. Due' = Due \cup {new} /\ new \notin Due
    BY <1>0, <2>1, <2>2 DEF Due, Busy, TypeOK
  <2>4. Born' = Born \cup {new} /\ new \notin Born
    BY <1>0, <2>1, <2>2 DEF Born, TypeOK
  <2>5. /\ IsFiniteSet(Due') /\ Cardinality(Due') = Cardinality(Due) + 1
        /\ IsFiniteSet(Born') /\ Cardinality(Born') = Cardinality(Born) + 1
    BY <1>0, <2>3, <2>4, FS_AddElement DEF Finite
  <2> QED
    BY <1>0, <1>1, <1>2, <1>3, <2>5 DEF BudgetInv, Finite, Budget
<1> QED
  BY <1>4, <1>5 DEF AlarmStep

LEMMA BudgetMain ==
  ASSUME BaseInv, BudgetInv, MainStep \/ SigHandlerMain
  PROVE  BudgetInv'
<1> USE ThreadFacts DEF AtMain, crewVars
<1>0. TypeOK /\ PostIndex /\ Finite /\ PostingOver /\ Budget /\ msg_read \in Nat
  BY DEF BaseInv, BudgetInv, TypeOK
<1>1. /\ Cardinality(Due) \in Nat /\ Cardinality(Tokens) \in Nat
      /\ Cardinality(Unposted) \in Nat /\ Cardinality(Born) \in Nat
  BY <1>0, BudgetTypes
<1>2. pc' = pc
  BY DEF MainStep, MainLoop, MainReturn, MainTake, MainReset, MainPass, MainPost, MainUnlock,
     SigHandlerMain
<1>3. Due' = Due /\ Born' = Born
  BY <1>2 DEF Due, Busy, Born
<1>4. CASE MainReset
  <2>1. posting = NUM_SCK_THREAD /\ msg_read = NUM_SCK_THREAD
        /\ msg_read' = 0 /\ posting' = 0 /\ main_pc' = "post" /\ sem_msg' = sem_msg
    BY <1>0, <1>4 DEF MainReset, RoundOver, PostingOver
  <2>2. Unposted' = Masters /\ Tokens' = Tokens /\ Unposted = {}
    BY <2>1 DEF Unposted, Tokens, Masters
  <2> QED
    BY <1>0, <1>1, <1>3, <2>1, <2>2, MastersFinite, FS_EmptySet DEF BudgetInv, Finite, Budget, PostingOver
<1>5. CASE MainPost
  <2>1. posting \in Masters /\ posting \in Nat /\ msg_read' = msg_read /\ posting' = posting + 1
        /\ sem_msg' = [sem_msg EXCEPT ![posting] = @ + 1]
    BY <1>0, <1>5 DEF MainPost, PostIndex, TypeOK, Masters
  <2>2. IsFiniteSet(Tokens') /\ Cardinality(Tokens') = Cardinality(Tokens) + 1
    BY <1>0, <2>1, TokenPosted
  <2>3. Unposted' = Unposted \ {posting} /\ posting \in Unposted
    BY <2>1 DEF Unposted, Masters
  <2>4. Cardinality(Unposted') = Cardinality(Unposted) - 1
    BY <1>0, <2>3, BudgetTypes, FS_RemoveElement
  <2>5. PostingOver'
    BY <1>5 DEF MainPost, PostingOver
  <2> QED
    BY <1>0, <1>1, <1>3, <2>1, <2>2, <2>4, <2>5 DEF BudgetInv, Finite, Budget
<1>6. CASE ~MainReset /\ ~MainPost
  <2>1. UNCHANGED <<msg_read, sem_msg, posting>>
    BY <1>6 DEF MainStep, MainLoop, MainReturn, MainTake, MainPass, MainUnlock, SigHandlerMain
  <2>2. Tokens' = Tokens /\ Unposted' = Unposted
    BY <2>1 DEF Tokens, Unposted
  <2>3. PostingOver'
    BY <1>0, <1>6 DEF MainStep, MainLoop, MainReturn, MainTake, MainPass, MainUnlock,
       SigHandlerMain, PostingOver
  <2> QED
    BY <1>0, <1>3, <2>1, <2>2, <2>3 DEF BudgetInv, Finite, Budget
<1> QED
  BY <1>4, <1>5, <1>6

LEMMA BudgetNext == BaseInv /\ BudgetInv /\ [Next]_vars => BudgetInv'
<1> SUFFICES ASSUME BaseInv, BudgetInv, [Next]_vars PROVE BudgetInv'
  OBVIOUS
<1>1. CASE UNCHANGED vars
  BY <1>1 DEF vars, roundVars, mainVars, BudgetInv, Finite, PostingOver, Budget, Due, Busy, Tokens,
     Unposted, Born
<1> QED
  BY <1>1, BudgetThread, BudgetBody, BudgetMain DEF Next, Ended

\* However many alarms restart the engine, and whatever they interrupt, the
\* counter passes NUM_SCK_THREAD by at most one for each engine beyond the first.
THEOREM OverrunBounded == Spec => []OverrunBound
<1>1. TypeOK /\ BudgetInv => OverrunBound
  <2> SUFFICES ASSUME TypeOK, BudgetInv PROVE OverrunBound
    OBVIOUS
  <2>1. restarts = Cardinality(Born) - 1
    BY DEF restarts, Born
  <2> QED
    BY <2>1, BudgetTypes, ThreadFacts DEF BudgetInv, Budget, OverrunBound, TypeOK
<1> QED
  BY <1>1, BudgetInit, BudgetNext, BaseAlways, PTL DEF Spec, BaseInv

=============================================================================
