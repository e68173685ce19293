------------------------------ MODULE Shutdown ------------------------------
(***************************************************************************)
(* terminte_program of Proyecto/sistema.c, run by main in the SIGINT       *)
(* handler while the other threads go on, composed with the reporting      *)
(* round: every step of ReportRound, and main's steps inside the handler.  *)
(* The three slaves neither report nor open sockets and are left out of    *)
(* the list of cancelled threads.                                          *)
(***************************************************************************)
EXTENDS ReportRound

VARIABLES
  step,     \* where terminte_program is
  open      \* threads whose socket is open

shutdownVars == <<vars, step, open>>

Steps == {"slaves", "undefined", "post", "masters", "close", "exit"}

\* The socket of an engine is opened when it is created.
ShutdownInit ==
  /\ Init
  /\ step = "slaves"
  /\ open = (Masters \ {Engine}) \cup {FirstEngine}

InHandler(s) == running /\ main_pc = "handler" /\ step = s

\* The first loop, up to array_threads[3]: of these only the engine reports.
CancelSlaves ==
  /\ InHandler("slaves")
  /\ cancelled' = cancelled \cup {engine}
  /\ step' = "undefined"
  /\ UNCHANGED <<pc, aborting, engine, is_on, sigint, swallowed, roundVars, mainVars, open>>

\* pthread_cancel(array_threads[4]): that thread was never created and the call
\* is given 0.  Undefined: it fails with an error or ends the process.
CancelNoThread ==
  /\ InHandler("undefined")
  /\ \/ step' = "post" /\ UNCHANGED running
     \/ step' = step /\ running' = FALSE
  /\ UNCHANGED <<pc, roundVars, main_pc, posting, restVars, open>>

\* Every reporter is let go, round over or not.
PostAll ==
  /\ InHandler("post")
  /\ sem_msg' = [m \in Masters |-> sem_msg[m] + 1]
  /\ step' = "masters"
  /\ UNCHANGED <<pc, numsec, sem_sock, sem_read, msg_read, mainVars, restVars, open>>

\* Mutant: off by one in the list of masters.
CancelMostMasters ==
  /\ InHandler("masters")
  /\ cancelled' = cancelled \cup (Masters \ {Engine, Alarm})
  /\ step' = "close"
  /\ UNCHANGED <<pc, aborting, engine, is_on, sigint, swallowed, roundVars, mainVars, open>>

CancelMasters ==
  /\ InHandler("masters")
  /\ cancelled' = cancelled \cup (Masters \ {Engine})
  /\ step' = "close"
  /\ UNCHANGED <<pc, aborting, engine, is_on, sigint, swallowed, roundVars, mainVars, open>>

\* Mutant: the engine's slot is not in the list.
CloseSomeSockets ==
  /\ InHandler("close")
  /\ open' = open \ (Masters \ {Engine})
  /\ step' = "exit"
  /\ UNCHANGED vars

\* array_socks has the last socket opened for each slot.
CloseSockets ==
  /\ InHandler("close")
  /\ open' = open \ ((Masters \ {Engine}) \cup {engine})
  /\ step' = "exit"
  /\ UNCHANGED vars

Exit ==
  /\ InHandler("exit")
  /\ running' = FALSE
  /\ UNCHANGED <<pc, roundVars, main_pc, posting, restVars, step, open>>

\* A new engine opens its socket besides the one of the engine it replaces.
RoundStep ==
  /\ Next
  /\ open' = IF engine' # engine THEN open \cup {engine'} ELSE open
  /\ UNCHANGED step

ShutdownNext ==
  \/ RoundStep
  \/ CancelSlaves \/ CancelNoThread \/ PostAll \/ CancelMasters \/ CloseSockets \/ Exit

ShutdownSpec == ShutdownInit /\ [][ShutdownNext]_shutdownVars

-----------------------------------------------------------------------------
(* Properties.                                                             *)

\* Threads that may still take a step of their own after the one under way.
Survivors ==
  {t \in Threads : pc[t] \notin {"unborn", "landed", "gone"} /\ t \notin cancelled}

\* Once terminte_program has cancelled the masters, the only thread that can go
\* on sending is an engine: one sig_handler_manual has created since the slaves
\* were cancelled.  It finds its socket closed under it.
OnlyLateEngine ==
  running /\ step \in {"close", "exit"} =>
    Survivors \subseteq (IF Restarted THEN {engine} ELSE {})

\* What terminte_program leaves open are sockets of replaced or late engines.
SocketsLeft ==
  step = "exit" => open \subseteq EngineThreads /\ (~Restarted => open = {})

\* The landing "runs a routine to end the program and free resources"
\* (Proyecto.docx), whose comment says it closes memory blocks and sockets.
FreesResources == ~running => open = {}
=============================================================================
