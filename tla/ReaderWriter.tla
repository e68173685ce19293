---------------------------- MODULE ReaderWriter ----------------------------
(***************************************************************************)
(* pacticas_exam/read_writer.c: readers and writers over the semaphores    *)
(* turn, mutex and empty.  A writer keeps turn while it waits for the room *)
(* to empty, which stops readers that have not entered yet.                *)
(***************************************************************************)
EXTENDS Integers, FiniteSets

CONSTANTS Readers, Writers
ASSUME ThreadsAssumption == IsFiniteSet(Readers) /\ Readers \cap Writers = {}

Threads == Readers \cup Writers

VARIABLES
  pc,         \* where each thread is (see Locations)
  turn,       \* value of the semaphore
  mutex,      \* value of the semaphore
  empty,      \* value of the semaphore
  noReaders   \* readers that have entered and not left

vars == <<pc, turn, mutex, empty, noReaders>>

(***************************************************************************)
(* "turn"   at sem_wait(&turn)              "pass"  about to post it       *)
(* "enter"  at sem_wait(&mutex)             "in"    about to ++noReaders   *)
(* "room"   at sem_wait(&empty)             "open"  about to post mutex    *)
(* "read", "write"  printing                "give"  a writer, about to     *)
(* "leave"  at the second sem_wait(&mutex)          post empty             *)
(* "out"    about to --noReaders            "close" about to post mutex    *)
(***************************************************************************)
ReaderLocations == {"turn", "pass", "enter", "in", "room", "open", "read", "leave", "out", "close"}
WriterLocations == {"turn", "room", "write", "pass", "give"}

Init ==
  /\ pc = [t \in Threads |-> "turn"]
  /\ turn = 1
  /\ mutex = 1
  /\ empty = 1
  /\ noReaders = 0

Go(t, from, to) == pc[t] = from /\ pc' = [pc EXCEPT ![t] = to]

-----------------------------------------------------------------------------
(* Both: the turn.                                                         *)

\* Mutant: readers do not wait for their turn.
TakeTurnOrNot(t) ==
  /\ Go(t, "turn", IF t \in Readers THEN "pass" ELSE "room")
  /\ IF t \in Readers /\ turn = 0 THEN UNCHANGED turn ELSE turn > 0 /\ turn' = turn - 1
  /\ UNCHANGED <<mutex, empty, noReaders>>

TakeTurn(t) ==
  /\ Go(t, "turn", IF t \in Readers THEN "pass" ELSE "room")
  /\ turn > 0
  /\ turn' = turn - 1
  /\ UNCHANGED <<mutex, empty, noReaders>>

PassTurn(t) ==
  /\ Go(t, "pass", IF t \in Readers THEN "enter" ELSE "give")
  /\ turn' = turn + 1
  /\ UNCHANGED <<mutex, empty, noReaders>>

-----------------------------------------------------------------------------
(* The writer.                                                             *)

TakeRoom(w) ==
  /\ Go(w, "room", "write")
  /\ empty > 0
  /\ empty' = empty - 1
  /\ UNCHANGED <<turn, mutex, noReaders>>

Write(w) == Go(w, "write", "pass") /\ UNCHANGED <<turn, mutex, empty, noReaders>>

GiveRoom(w) ==
  /\ Go(w, "give", "turn")
  /\ empty' = empty + 1
  /\ UNCHANGED <<turn, mutex, noReaders>>

writer(w) == TakeTurn(w) \/ TakeRoom(w) \/ Write(w) \/ PassTurn(w) \/ GiveRoom(w)

-----------------------------------------------------------------------------
(* The reader.                                                             *)

LockEnter(r) ==
  /\ Go(r, "enter", "in")
  /\ mutex > 0
  /\ mutex' = mutex - 1
  /\ UNCHANGED <<turn, empty, noReaders>>

\* Mutant: the counter is tested before it is incremented.
ComeInEarlyTest(r) ==
  /\ Go(r, "in", IF noReaders = 1 THEN "room" ELSE "open")
  /\ noReaders' = noReaders + 1
  /\ UNCHANGED <<turn, mutex, empty>>

ComeIn(r) ==
  /\ Go(r, "in", IF noReaders + 1 = 1 THEN "room" ELSE "open")
  /\ noReaders' = noReaders + 1
  /\ UNCHANGED <<turn, mutex, empty>>

\* The first reader waits for the room, with mutex taken.
FirstIn(r) ==
  /\ Go(r, "room", "open")
  /\ empty > 0
  /\ empty' = empty - 1
  /\ UNCHANGED <<turn, mutex, noReaders>>

UnlockEnter(r) ==
  /\ Go(r, "open", "read")
  /\ mutex' = mutex + 1
  /\ UNCHANGED <<turn, empty, noReaders>>

Read(r) == Go(r, "read", "leave") /\ UNCHANGED <<turn, mutex, empty, noReaders>>

LockLeave(r) ==
  /\ Go(r, "leave", "out")
  /\ mutex > 0
  /\ mutex' = mutex - 1
  /\ UNCHANGED <<turn, empty, noReaders>>

\* Mutant: every reader that leaves posts empty.
GoOutAlwaysPosting(r) ==
  /\ Go(r, "out", "close")
  /\ noReaders' = noReaders - 1
  /\ empty' = empty + 1
  /\ UNCHANGED <<turn, mutex>>

\* Mutant: the counter is tested before it is decremented.
GoOutEarlyTest(r) ==
  /\ Go(r, "out", "close")
  /\ noReaders' = noReaders - 1
  /\ empty' = IF noReaders = 0 THEN empty + 1 ELSE empty
  /\ UNCHANGED <<turn, mutex>>

\* The last reader out gives the room back.
GoOut(r) ==
  /\ Go(r, "out", "close")
  /\ noReaders' = noReaders - 1
  /\ empty' = IF noReaders' = 0 THEN empty + 1 ELSE empty
  /\ UNCHANGED <<turn, mutex>>

UnlockLeave(r) ==
  /\ Go(r, "close", "turn")
  /\ mutex' = mutex + 1
  /\ UNCHANGED <<turn, empty, noReaders>>

reader(r) ==
  \/ TakeTurn(r) \/ PassTurn(r)
  \/ LockEnter(r) \/ ComeIn(r) \/ FirstIn(r) \/ UnlockEnter(r)
  \/ Read(r)
  \/ LockLeave(r) \/ GoOut(r) \/ UnlockLeave(r)

Next == (\E w \in Writers : writer(w)) \/ (\E r \in Readers : reader(r))

Spec == Init /\ [][Next]_vars

\* Every thread is scheduled; no semaphore is fair.
Fairness ==
  /\ \A w \in Writers : WF_vars(writer(w))
  /\ \A r \in Readers : WF_vars(reader(r))

FairSpec == Spec /\ Fairness

-----------------------------------------------------------------------------
(* Properties.                                                             *)

\* Every variable has its type.
TypeOK ==
  /\ pc \in [Threads -> ReaderLocations \cup WriterLocations]
  /\ \A r \in Readers : pc[r] \in ReaderLocations
  /\ \A w \in Writers : pc[w] \in WriterLocations
  /\ turn \in {0, 1} /\ mutex \in {0, 1} /\ empty \in {0, 1}
  /\ noReaders \in 0 .. Cardinality(Readers)

\* Readers between the first in and the last out, and the writers with empty.
Inside ==
  {r \in Readers : pc[r] \in {"open", "read", "leave", "out"}}
    \cup {w \in Writers : pc[w] \in {"write", "pass", "give"}}

TheRoom == INSTANCE Room WITH inside <- Inside

\* A writer is alone in the room, from its wait for empty to its post of it, and
\* readers are in it only with readers.
ImplementsRoom == TheRoom!RoomSpec

\* Readers that have taken a turn and not come back for another.
PastTurn == {r \in Readers : pc[r] # "turn"}

\* While a writer waits for the room the readers it waits for only get fewer.
NoReaderStarts == [][(\E w \in Writers : pc[w] = "room") => PastTurn' \subseteq PastTurn]_vars

\* At a sem_wait that would not return.
Waits(t) ==
  \/ pc[t] = "turn" /\ turn = 0
  \/ pc[t] \in {"enter", "leave"} /\ mutex = 0
  \/ pc[t] = "room" /\ empty = 0

\* The three semaphores, each taken while others are held, never make a circle of
\* waits: whoever waits, somebody goes on.
NeverStuck == Threads # {} => \E t \in Threads : ~Waits(t)

\* Readers cannot starve a writer: once it has its turn no reader starts, and
\* those inside leave.  (That it gets its turn the program does not ensure, nor
\* that the first reader gets the room: semaphores are not fair.)
WriterGetsIn == \A w \in Writers : pc[w] = "room" ~> pc[w] = "write"
=============================================================================
