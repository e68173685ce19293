---------------------------- MODULE BoundedBuffer ---------------------------
(***************************************************************************)
(* pacticas_exam/buffer.c: one producer and one consumer over three        *)
(* semaphores.  The program has no buffer, only the messages each thread   *)
(* prints while it holds mutex; food counts them.                          *)
(***************************************************************************)
EXTENDS Integers

CONSTANT MAX
ASSUME MaxAssumption == MAX \in Nat

VARIABLES
  producer,  \* where the producer is: at the statement of this name
  consumer,  \* where the consumer is
  mutex,     \* value of the semaphore
  filled,    \* value of the semaphore
  empty,     \* value of the semaphore
  food       \* history: produced and not yet eaten

vars == <<producer, consumer, mutex, filled, empty, food>>

ProducerLocations == {"empty", "mutex", "produce", "filled", "unlock"}
ConsumerLocations == {"filled", "mutex", "eat", "empty", "unlock"}

Init ==
  /\ producer = "empty"
  /\ consumer = "filled"
  /\ mutex = 1
  /\ filled = 0
  /\ empty = MAX
  /\ food = 0

-----------------------------------------------------------------------------

\* Mutant: the producer does not look for a free place.
ProducerTakesAny ==
  /\ producer = "empty"
  /\ empty' = IF empty > 0 THEN empty - 1 ELSE 0
  /\ producer' = "mutex"
  /\ UNCHANGED <<consumer, mutex, filled, food>>

ProducerTakes ==
  /\ producer = "empty"
  /\ empty > 0
  /\ empty' = empty - 1
  /\ producer' = "mutex"
  /\ UNCHANGED <<consumer, mutex, filled, food>>

ProducerLocks ==
  /\ producer = "mutex"
  /\ mutex > 0
  /\ mutex' = mutex - 1
  /\ producer' = "produce"
  /\ UNCHANGED <<consumer, filled, empty, food>>

ProducerWorks ==
  /\ producer = "produce"
  /\ food' = food + 1
  /\ producer' = "filled"
  /\ UNCHANGED <<consumer, mutex, filled, empty>>

ProducerPosts ==
  /\ producer = "filled"
  /\ filled' = filled + 1
  /\ producer' = "unlock"
  /\ UNCHANGED <<consumer, mutex, empty, food>>

ProducerUnlocks ==
  /\ producer = "unlock"
  /\ mutex' = mutex + 1
  /\ producer' = "empty"
  /\ UNCHANGED <<consumer, filled, empty, food>>

Producer ==
  ProducerTakes \/ ProducerLocks \/ ProducerWorks \/ ProducerPosts \/ ProducerUnlocks

-----------------------------------------------------------------------------

ConsumerTakes ==
  /\ consumer = "filled"
  /\ filled > 0
  /\ filled' = filled - 1
  /\ consumer' = "mutex"
  /\ UNCHANGED <<producer, mutex, empty, food>>

\* Mutant: mutex is not taken.
ConsumerBargesIn ==
  /\ consumer = "mutex"
  /\ consumer' = "eat"
  /\ UNCHANGED <<producer, mutex, filled, empty, food>>

ConsumerLocks ==
  /\ consumer = "mutex"
  /\ mutex > 0
  /\ mutex' = mutex - 1
  /\ consumer' = "eat"
  /\ UNCHANGED <<producer, filled, empty, food>>

ConsumerWorks ==
  /\ consumer = "eat"
  /\ food' = food - 1
  /\ consumer' = "empty"
  /\ UNCHANGED <<producer, mutex, filled, empty>>

\* Mutant: the place that was freed is not given back.
ConsumerKeepsPlace ==
  /\ consumer = "empty"
  /\ consumer' = "unlock"
  /\ UNCHANGED <<producer, mutex, filled, empty, food>>

ConsumerPosts ==
  /\ consumer = "empty"
  /\ empty' = empty + 1
  /\ consumer' = "unlock"
  /\ UNCHANGED <<producer, mutex, filled, food>>

ConsumerUnlocks ==
  /\ consumer = "unlock"
  /\ mutex' = mutex + 1
  /\ consumer' = "filled"
  /\ UNCHANGED <<producer, filled, empty, food>>

Consumer ==
  ConsumerTakes \/ ConsumerLocks \/ ConsumerWorks \/ ConsumerPosts \/ ConsumerUnlocks

Next == Producer \/ Consumer

Spec == Init /\ [][Next]_vars

\* Both threads are always scheduled.  Nothing more is asked of mutex: a thread
\* that loses it to the other loses it MAX times at most, for the other then
\* waits for it at empty or filled.
Fairness == WF_vars(Producer) /\ WF_vars(Consumer)

FairSpec == Spec /\ Fairness

-----------------------------------------------------------------------------
(* Properties.                                                             *)

\* Every variable has its type; no semaphore passes its initial value or MAX.
TypeOK ==
  /\ producer \in ProducerLocations
  /\ consumer \in ConsumerLocations
  /\ mutex \in {0, 1}
  /\ filled \in 0..MAX
  /\ empty \in 0..MAX
  /\ food \in 0..MAX

\* Between taking mutex and posting it.
ProducerIn == producer \in {"produce", "filled", "unlock"}
ConsumerIn == consumer \in {"eat", "empty", "unlock"}

\* The messages are printed under mutex, never both at once.
Exclusion == ~(ProducerIn /\ ConsumerIn)

\* At a sem_wait that would not return.
ProducerWaits ==
  \/ producer = "empty" /\ empty = 0
  \/ producer = "mutex" /\ mutex = 0
ConsumerWaits ==
  \/ consumer = "filled" /\ filled = 0
  \/ consumer = "mutex" /\ mutex = 0

\* producer and consumer never wait for each other: each takes its counting
\* semaphore before mutex, and not the other way round.
NeverStuck == ~(ProducerWaits /\ ConsumerWaits)

Buf == INSTANCE Buffer

\* Every meal was cooked before it is eaten and there are never more than MAX
\* of them: the two counting semaphores are the buffer the program lacks.
ImplementsBuffer == Buf!BufferSpec

\* What is cooked is eaten: the consumer keeps eating, and so the producer
\* keeps finding a place.
MealsGoOn == []<>(consumer = "eat")
=============================================================================
