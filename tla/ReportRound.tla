---------------------------- MODULE ReportRound -----------------------------
(***************************************************************************)
(* The reporting round of Proyecto/sistema.c.  Each master thread runs its *)
(* body, sends one datagram with send_mesg (which counts it in msg_read)   *)
(* and sleeps on its own sem_msg; the main thread spins on msg_read and,   *)
(* when it finds NUM_SCK_THREAD in it, resets it and posts every sem_msg.  *)
(*                                                                         *)
(* What a body does to the rocket is the subject of other modules: here it *)
(* is one step, except for the bodies that touch the round itself:         *)
(*   - sig_handler_manual cancels and recreates the engine thread on the   *)
(*     alarms 101 and 102, ends the program on 104, and reports nothing on *)
(*     a code it does not know;                                            *)
(*   - signal_explote_rocket, short of gasoline, reports, waits for the    *)
(*     round and ends the program;                                         *)
(*   - signal_landing_check stops every loop and reports a last time.      *)
(* "Ends the program" is pthread_kill(main_id, SIGINT); this module stops  *)
(* when main enters the handler, whose steps are those of module Shutdown. *)
(***************************************************************************)
EXTENDS Integers, FiniteSets

CONSTANTS
  NUM_SCK_THREAD, \* the number of slots of sem_msg and array_socks
  Engine,         \* the slot of pricipal_engine_thread
  Alarm,          \* the slot of sig_handler_manual
  Lander,         \* the slot of signal_landing_check
  Exploder,       \* the slot of signal_explote_rocket
  EngineThreads,  \* the pthreads that may run pricipal_engine_thread, one after
                  \* the other: bounds the restarts
  FirstEngine,    \* the one main creates
  AlarmCodes,     \* what sig_handler_manual may find in the alarm block
  MAXTRY          \* last pause, in seconds, of the send loop

RestartCodes == {101, 102}
NoAlarm == 0
ThrusterCode == 103
ExplodeCode == 104
ReportedCodes == RestartCodes \cup {NoAlarm, ThrusterCode, ExplodeCode}

\* The slots, one for each master thread.
Masters == 0 .. NUM_SCK_THREAD - 1

ASSUME SlotsAssumption ==
  /\ NUM_SCK_THREAD \in Nat
  /\ {Engine, Alarm, Lander, Exploder} \subseteq Masters
  /\ Engine \notin {Alarm, Lander, Exploder}
  /\ Alarm \notin {Lander, Exploder}
  /\ Lander # Exploder
ASSUME EngineAssumption ==
  /\ FirstEngine \in EngineThreads
  /\ EngineThreads \cap Masters = {}
ASSUME CodesAssumption == AlarmCodes \subseteq Nat
ASSUME TryAssumption == MAXTRY \in Nat \ {0}

Threads == (Masters \ {Engine}) \cup EngineThreads

\* The index of array_socks and sem_msg that a thread uses.
Slot(t) == IF t \in EngineThreads THEN Engine ELSE t

VARIABLES
  pc,           \* where each thread is (see Locations)
  cancelled,    \* threads with a pending pthread_cancel
  aborting,     \* threads whose report under way comes before a SIGINT to main
  engine,       \* array_threads[2]
  numsec,       \* the send loop's pause; only the holder of sem_sock uses it
  sem_sock,     \* value of the semaphore
  sem_read,     \* value of the semaphore
  sem_msg,      \* value of each slot's semaphore
  msg_read,     \* reports counted since the last reset
  main_pc,      \* where main is
  posting,      \* i of main's posting loop; NUM_SCK_THREAD when it is not posting
  is_on,        \* the flag every loop tests
  sigint,       \* a SIGINT is pending for main
  running,      \* FALSE once main has returned: the process is gone
  swallowed     \* history: sig_handler_manual met a code it does not report

roundVars == <<numsec, sem_sock, sem_read, sem_msg, msg_read>>
mainVars == <<main_pc, posting, running>>
restVars == <<cancelled, aborting, engine, is_on, sigint, swallowed>>
crewVars == <<pc, cancelled, aborting, engine, numsec, sem_sock, is_on, swallowed>>
vars == <<pc, roundVars, mainVars, restVars>>

(***************************************************************************)
(* "unborn"  not created yet (a later engine thread)                       *)
(* "work"    the body of the loop, from while (is_on) up to send_mesg      *)
(* "sock"    at sem_wait(&sem_sock)         "send"  in the sendto loop     *)
(* "read"    at sem_wait(&sem_read)         "count" about to ++msg_read    *)
(* "msg"     at sem_wait(&sem_msg[slot])                                   *)
(* "kill"    about to send SIGINT to main                                  *)
(* "landed"  signal_landing_check is done   "gone"  returned or cancelled  *)
(***************************************************************************)
InSend == {"send", "read", "count"}
Locations == {"unborn", "work", "sock", "msg", "kill", "landed", "gone"} \cup InSend

(***************************************************************************)
(* "loop" at while (is_on), "wait" at sem_wait(&sem_read), "check" holding *)
(* it, "post" posting sem_msg, "unlock" about to post sem_read, "handler"  *)
(* in sig_handler_main, wherever the loop was when SIGINT came.            *)
(***************************************************************************)
MainHolds == {"check", "post", "unlock"}
MainLocations == {"loop", "wait", "handler"} \cup MainHolds

Init ==
  /\ pc = [t \in Threads |->
             IF t \in EngineThreads \ {FirstEngine} THEN "unborn" ELSE "work"]
  /\ cancelled = {}
  /\ aborting = {}
  /\ engine = FirstEngine
  /\ numsec = 1
  /\ sem_sock = 1
  /\ sem_read = 1
  /\ sem_msg = [m \in Masters |-> 0]
  /\ msg_read = 0
  /\ main_pc = "loop"
  /\ posting = NUM_SCK_THREAD
  /\ is_on = TRUE
  /\ sigint = FALSE
  /\ running = TRUE
  /\ swallowed = FALSE

-----------------------------------------------------------------------------
(* The bodies, from the test of is_on to the call of send_mesg.            *)

\* Deferred cancellation: a thread with a request pending goes no further than
\* the next cancellation point (pthread_testcancel, sem_wait, sendto, sleep).
\* Between sem_wait(&sem_read) and the posts there is none.
At(t, loc) == running /\ pc[t] = loc /\ (t \in cancelled => loc = "count")
GoTo(t, loc) == pc' = [pc EXCEPT ![t] = loc]

\* A body that leaves the round alone.
Work(t) ==
  /\ t # Alarm
  /\ At(t, "work")
  /\ is_on
  /\ GoTo(t, "sock")
  /\ UNCHANGED <<roundVars, mainVars, restVars>>

\* signal_explote_rocket with less than 10 of gasoline left.
Abort ==
  /\ At(Exploder, "work")
  /\ is_on
  /\ GoTo(Exploder, "sock")
  /\ aborting' = aborting \cup {Exploder}
  /\ UNCHANGED <<cancelled, engine, is_on, sigint, swallowed, roundVars, mainVars>>

\* signal_landing_check on the ground, both gyroscopes level.
Land ==
  /\ At(Lander, "work")
  /\ is_on
  /\ is_on' = FALSE
  /\ GoTo(Lander, "sock")
  /\ aborting' = aborting \cup {Lander}
  /\ UNCHANGED <<cancelled, engine, sigint, swallowed, roundVars, mainVars>>

\* sig_handler_manual: no alarm, or one that leaves the engine alone.
HandleAlarm(code) ==
  /\ At(Alarm, "work")
  /\ is_on
  /\ code \in ReportedCodes \ RestartCodes
  /\ GoTo(Alarm, "sock")
  /\ aborting' = IF code = ExplodeCode THEN aborting \cup {Alarm} ELSE aborting
  /\ UNCHANGED <<cancelled, engine, is_on, sigint, swallowed, roundVars, mainVars>>

\* manage_principal_engine(1): the engine is cancelled and created again.
RestartEngine(code, new) ==
  /\ At(Alarm, "work")
  /\ is_on
  /\ code \in RestartCodes
  /\ pc[new] = "unborn"
  /\ cancelled' = cancelled \cup {engine}
  /\ engine' = new
  /\ pc' = [pc EXCEPT ![Alarm] = "sock", ![new] = "work"]
  /\ UNCHANGED <<aborting, is_on, sigint, swallowed, roundVars, mainVars>>

\* The chain of else-ifs has no branch for this code: nothing is sent.
Swallow(code) ==
  /\ At(Alarm, "work")
  /\ is_on
  /\ code \notin ReportedCodes
  /\ GoTo(Alarm, "msg")
  /\ swallowed' = TRUE
  /\ UNCHANGED <<cancelled, aborting, engine, is_on, sigint, roundVars, mainVars>>

LoopExit(t) ==
  /\ At(t, "work")
  /\ ~is_on
  /\ GoTo(t, "gone")
  /\ UNCHANGED <<roundVars, mainVars, restVars>>

-----------------------------------------------------------------------------
(* send_mesg, and the wait for the round that follows it.                  *)

TakeSock(t) ==
  /\ At(t, "sock")
  /\ sem_sock > 0
  /\ sem_sock' = sem_sock - 1
  /\ numsec' = 1
  /\ GoTo(t, "send")
  /\ UNCHANGED <<sem_read, sem_msg, msg_read, mainVars, restVars>>

\* Mutant: a datagram that could not be sent is not counted.
SendDoneOrSkipped(t) ==
  /\ At(t, "send")
  /\ \/ GoTo(t, "read") /\ UNCHANGED sem_sock
     \/ GoTo(t, "msg") /\ sem_sock' = sem_sock + 1
  /\ UNCHANGED <<numsec, sem_read, sem_msg, msg_read, mainVars, restVars>>

\* sendto sent something, or the loop has run out of pauses.
SendDone(t) ==
  /\ At(t, "send")
  /\ GoTo(t, "read")
  /\ UNCHANGED <<roundVars, mainVars, restVars>>

\* Mutant: every attempt is counted.
SendAgainCounted(t) ==
  /\ At(t, "send")
  /\ 2 * numsec <= MAXTRY
  /\ numsec' = 2 * numsec
  /\ msg_read' = msg_read + 1
  /\ UNCHANGED <<pc, sem_sock, sem_read, sem_msg, mainVars, restVars>>

\* sendto failed: once more, after a pause twice as long.
SendAgain(t) ==
  /\ At(t, "send")
  /\ 2 * numsec <= MAXTRY
  /\ numsec' = 2 * numsec
  /\ UNCHANGED <<pc, sem_sock, sem_read, sem_msg, msg_read, mainVars, restVars>>

\* Mutant: ++msg_read without sem_read.
TakeReadFree(t) ==
  /\ At(t, "read")
  /\ GoTo(t, "count")
  /\ UNCHANGED <<roundVars, mainVars, restVars>>

TakeRead(t) ==
  /\ At(t, "read")
  /\ sem_read > 0
  /\ sem_read' = sem_read - 1
  /\ GoTo(t, "count")
  /\ UNCHANGED <<numsec, sem_sock, sem_msg, msg_read, mainVars, restVars>>

\* What a thread does when send_mesg returns: only signal_explote_rocket waits
\* for the round before it ends the program.
AfterSend(t) == IF t \in aborting /\ t # Exploder THEN "kill" ELSE "msg"

\* ++msg_read and the two posts.
Count(t) ==
  /\ At(t, "count")
  /\ msg_read' = msg_read + 1
  /\ sem_read' = sem_read + 1
  /\ sem_sock' = sem_sock + 1
  /\ GoTo(t, AfterSend(t))
  /\ UNCHANGED <<numsec, sem_msg, mainVars, restVars>>

\* Mutant: signal_explote_rocket forgets to end the program.
WakeForgets(t) ==
  /\ At(t, "msg")
  /\ sem_msg[Slot(t)] > 0
  /\ sem_msg' = [sem_msg EXCEPT ![Slot(t)] = @ - 1]
  /\ GoTo(t, "work")
  /\ UNCHANGED <<numsec, sem_sock, sem_read, msg_read, mainVars, restVars>>

Wake(t) ==
  /\ At(t, "msg")
  /\ sem_msg[Slot(t)] > 0
  /\ sem_msg' = [sem_msg EXCEPT ![Slot(t)] = @ - 1]
  /\ GoTo(t, IF t \in aborting THEN "kill" ELSE "work")
  /\ UNCHANGED <<numsec, sem_sock, sem_read, msg_read, mainVars, restVars>>

\* pthread_kill(main_id, SIGINT): signal_landing_check then returns,
\* sig_handler_manual waits for the round, signal_explote_rocket reports again.
AfterKill(t) ==
  IF t = Lander THEN "landed" ELSE IF t = Exploder THEN "sock" ELSE "msg"

Kill(t) ==
  /\ At(t, "kill")
  /\ sigint' = TRUE
  /\ aborting' = aborting \ {t}
  /\ GoTo(t, AfterKill(t))
  /\ UNCHANGED <<cancelled, engine, is_on, swallowed, roundVars, mainVars>>

\* Mutant: a cleanup handler posts sem_sock, taken or not.
CancelledPosts(t) ==
  /\ running
  /\ t \in cancelled
  /\ pc[t] \in {"work", "sock", "send", "read", "msg", "kill"}
  /\ sem_sock' = sem_sock + 1
  /\ GoTo(t, "gone")
  /\ UNCHANGED <<numsec, sem_read, sem_msg, msg_read, mainVars, restVars>>

\* Mutant: asynchronous cancellation.
CancelledAnywhere(t) ==
  /\ running
  /\ t \in cancelled
  /\ pc[t] # "unborn"
  /\ GoTo(t, "gone")
  /\ UNCHANGED <<roundVars, mainVars, restVars>>

\* The thread ends where it is: no cleanup handler posts what it had taken.
Cancelled(t) ==
  /\ running
  /\ t \in cancelled
  /\ pc[t] \in {"work", "sock", "send", "read", "msg", "kill"}
  /\ GoTo(t, "gone")
  /\ UNCHANGED <<roundVars, mainVars, restVars>>

ThreadStep(t) ==
  \/ Work(t) \/ LoopExit(t)
  \/ TakeSock(t) \/ SendDone(t) \/ SendAgain(t) \/ TakeRead(t) \/ Count(t)
  \/ Wake(t) \/ Kill(t) \/ Cancelled(t)

AlarmStep ==
  \E code \in AlarmCodes :
    \/ HandleAlarm(code)
    \/ \E new \in EngineThreads : RestartEngine(code, new)
    \/ Swallow(code)

-----------------------------------------------------------------------------
(* The main thread.                                                        *)

AtMain(loc) == running /\ main_pc = loc

MainLoop ==
  /\ AtMain("loop")
  /\ is_on
  /\ main_pc' = "wait"
  /\ UNCHANGED <<crewVars, sem_read, sem_msg, msg_read, posting, sigint, running>>

\* Returning from main ends the process, whatever the threads are doing.
MainReturn ==
  /\ AtMain("loop")
  /\ ~is_on
  /\ running' = FALSE
  /\ UNCHANGED <<crewVars, sem_read, sem_msg, msg_read, main_pc, posting, sigint>>

MainTake ==
  /\ AtMain("wait")
  /\ sem_read > 0
  /\ sem_read' = sem_read - 1
  /\ main_pc' = "check"
  /\ UNCHANGED <<crewVars, sem_msg, msg_read, posting, sigint, running>>

\* Mutant: off by one.
RoundAlmostOver == msg_read >= NUM_SCK_THREAD - 1

RoundOver == msg_read = NUM_SCK_THREAD

\* Mutant: msg_read is not reset.
MainNoReset ==
  /\ AtMain("check")
  /\ RoundOver
  /\ posting' = 0
  /\ main_pc' = "post"
  /\ UNCHANGED <<crewVars, sem_read, sem_msg, msg_read, sigint, running>>

MainReset ==
  /\ AtMain("check")
  /\ RoundOver
  /\ msg_read' = 0
  /\ posting' = 0
  /\ main_pc' = "post"
  /\ UNCHANGED <<crewVars, sem_read, sem_msg, sigint, running>>

MainPass ==
  /\ AtMain("check")
  /\ ~RoundOver
  /\ main_pc' = "unlock"
  /\ UNCHANGED <<crewVars, sem_read, sem_msg, msg_read, posting, sigint, running>>

\* Mutant: the last slot is not posted.
MainPostShort ==
  /\ AtMain("post")
  /\ sem_msg' = [sem_msg EXCEPT ![posting] = @ + 1]
  /\ posting' = IF posting + 2 >= NUM_SCK_THREAD THEN NUM_SCK_THREAD ELSE posting + 1
  /\ main_pc' = IF posting + 2 >= NUM_SCK_THREAD THEN "unlock" ELSE "post"
  /\ UNCHANGED <<crewVars, sem_read, msg_read, sigint, running>>

MainPost ==
  /\ AtMain("post")
  /\ sem_msg' = [sem_msg EXCEPT ![posting] = @ + 1]
  /\ posting' = posting + 1
  /\ main_pc' = IF posting + 1 = NUM_SCK_THREAD THEN "unlock" ELSE "post"
  /\ UNCHANGED <<crewVars, sem_read, msg_read, sigint, running>>

MainUnlock ==
  /\ AtMain("unlock")
  /\ sem_read' = sem_read + 1
  /\ main_pc' = "loop"
  /\ UNCHANGED <<crewVars, sem_msg, msg_read, posting, sigint, running>>

\* sig_handler_main interrupts the loop where it is; terminte_program exits.
SigHandlerMain ==
  /\ running
  /\ sigint
  /\ main_pc # "handler"
  /\ main_pc' = "handler"
  /\ sigint' = FALSE
  /\ UNCHANGED <<crewVars, sem_read, sem_msg, msg_read, posting, running>>

MainStep ==
  \/ MainLoop \/ MainReturn \/ MainTake \/ MainReset \/ MainPass
  \/ MainPost \/ MainUnlock

\* The end of the module: the process is gone, or main is in terminte_program.
Stopped == ~running \/ main_pc = "handler"
Ended == Stopped /\ UNCHANGED vars

Next ==
  \/ \E t \in Threads : ThreadStep(t)
  \/ Abort \/ Land \/ AlarmStep
  \/ MainStep \/ SigHandlerMain
  \/ Ended

Spec == Init /\ [][Next]_vars

\* Main spins on sem_read for as long as the program runs, so a reporter that
\* wants it needs strong fairness; sem_sock is contended by at most one report
\* of each thread per round, and sem_msg by its owner alone.
Fairness ==
  /\ \A t \in Threads :
       /\ WF_vars(ThreadStep(t))
       /\ SF_vars(TakeRead(t))
  /\ WF_vars(AlarmStep)
  /\ WF_vars(MainStep)
  /\ WF_vars(SigHandlerMain)

FairSpec == Spec /\ Fairness

-----------------------------------------------------------------------------
(* Properties.                                                             *)

\* Every variable has its type.
TypeOK ==
  /\ pc \in [Threads -> Locations]
  /\ cancelled \subseteq EngineThreads
  /\ aborting \subseteq {Alarm, Lander, Exploder}
  /\ engine \in EngineThreads
  /\ numsec \in 1..MAXTRY
  /\ sem_sock \in {0, 1}
  /\ sem_read \in {0, 1}
  /\ sem_msg \in [Masters -> Nat]
  /\ msg_read \in Nat
  /\ main_pc \in MainLocations
  /\ posting \in 0..NUM_SCK_THREAD
  /\ is_on \in BOOLEAN
  /\ sigint \in BOOLEAN
  /\ running \in BOOLEAN
  /\ swallowed \in BOOLEAN

\* sem_sock gives mutual exclusion to send_mesg: never two threads inside, none
\* while the semaphore is free.  Holds with engines cancelled inside it.
SockExclusion ==
  /\ \A t, u \in Threads : pc[t] \in InSend /\ pc[u] \in InSend => t = u
  /\ sem_sock = 1 => \A t \in Threads : pc[t] \notin InSend

\* msg_read and the release have one owner at a time: a reporter that counts, or
\* main between its wait and its post of sem_read.
ReadExclusion ==
  /\ \A t, u \in Threads : pc[t] = "count" /\ pc[u] = "count" => t = u
  /\ main_pc \in MainHolds => \A t \in Threads : pc[t] # "count"
  /\ sem_read = 1 => main_pc \notin MainHolds /\ \A t \in Threads : pc[t] # "count"

\* sem_read, unlike sem_sock, is never lost to a cancellation: while it is taken
\* and main is in its loop, somebody is there to post it.
ReadReturned ==
  sem_read = 0 =>
    main_pc \in MainHolds \cup {"handler"} \/ \E t \in Threads : pc[t] = "count"

\* sem_sock is posted by whoever took it (what Clase9.md asks of a semaphore).
SockReturned == sem_sock = 0 => \E t \in Threads : pc[t] \in InSend

\* An engine beyond the first has been created.
Restarted == \E t \in EngineThreads \ {FirstEngine} : pc[t] # "unborn"

restarts == Cardinality({t \in EngineThreads : pc[t] # "unborn"}) - 1

\* A restarted engine can be counted besides the one it replaces, and never more
\* than that: the counter passes NUM_SCK_THREAD by at most the restarts.
OverrunBound == msg_read <= NUM_SCK_THREAD + restarts

\* The thread will not report again unless somebody else acts.
Parked(t) ==
  \/ pc[t] \in {"unborn", "landed", "gone"}
  \/ pc[t] = "msg" /\ sem_msg[Slot(t)] = 0
  \/ pc[t] = "sock" /\ sem_sock = 0 /\ ~(\E u \in Threads : pc[u] \in InSend)

\* Nobody is left to complete the round main is spinning for.
Hung ==
  /\ running /\ ~sigint /\ is_on
  /\ main_pc \in {"loop", "wait"}
  /\ ~RoundOver
  /\ \A t \in Threads : Parked(t)

\* The round can only be lost to sig_handler_manual: an engine it restarted
\* (counted twice, or cancelled with sem_sock taken) or a code it swallowed.
HangCause == Hung => swallowed \/ Restarted

\* signal_explote_rocket sends its SIGINT after the round it has reported in.
HasReported(t) == pc[t] \in {"msg", "landed"} \/ (pc[t] = "kill" /\ t # Exploder)

\* The slots whose thread has reported in the round under way.
Reported ==
  {m \in Masters :
     /\ sem_msg[m] = 0 /\ m < posting
     /\ \E t \in Threads : Slot(t) = m /\ HasReported(t)}

\* Until sig_handler_manual disturbs the round, msg_read counts those slots.
Undisturbed == ~swallowed /\ ~Restarted
RoundCount == Undisturbed => msg_read = Cardinality(Reported)

Barrier == INSTANCE RoundBarrier WITH Reporters <- Masters, reported <- Reported

\* Without restarts and unknown codes the round is a barrier: each slot reports
\* once, and main releases nobody before all have.
ImplementsBarrier == Barrier!BarrierSpec

\* Rounds keep being completed until the program ends.
RoundsGoOn == []<>(main_pc = "post" \/ Stopped)

\* Whoever waits for the round goes on, or the program ends.
ReporterReleased == \A t \in Threads : pc[t] = "msg" ~> pc[t] # "msg" \/ Stopped

\* An end of the program that a thread has decided on comes about: the report
\* before it, its round and the SIGINT to main.
EndComesAbout == \A t \in {Alarm, Lander, Exploder} : t \in aborting ~> Stopped
=============================================================================
