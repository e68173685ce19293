------------------------- MODULE BoundedBufferProofs ------------------------
(***************************************************************************)
(* BoundedBuffer implements Buffer and keeps its threads apart, for every  *)
(* MAX.  The invariant accounts for each of the MAX places: free, filled,  *)
(* or in the hands of one of the two threads.                              *)
(***************************************************************************)
EXTENDS BoundedBuffer, TLAPS

\* A place the producer has taken and not yet posted as filled, and whether it
\* holds food already; likewise for the consumer.
ProducerHas == IF producer \in {"mutex", "produce", "filled"} THEN 1 ELSE 0
ProducerMade == IF producer = "filled" THEN 1 ELSE 0
ConsumerHas == IF consumer \in {"mutex", "eat", "empty"} THEN 1 ELSE 0
ConsumerLeft == IF consumer \in {"mutex", "eat"} THEN 1 ELSE 0

BufferInv ==
  /\ producer \in ProducerLocations
  /\ consumer \in ConsumerLocations
  /\ mutex \in Nat /\ filled \in Nat /\ empty \in Nat /\ food \in Int
  /\ empty + filled + ProducerHas + ConsumerHas = MAX
  /\ food = filled + ProducerMade + ConsumerLeft
  /\ mutex + (IF ProducerIn THEN 1 ELSE 0) + (IF ConsumerIn THEN 1 ELSE 0) = 1

\* The invariant holds at first, is preserved, and says what is promised.
LEMMA InvInit == Init => BufferInv
  BY MaxAssumption
     DEF Init, BufferInv, ProducerLocations, ConsumerLocations, ProducerHas, ProducerMade,
         ConsumerHas, ConsumerLeft, ProducerIn, ConsumerIn

LEMMA InvNext == BufferInv /\ [Next]_vars => BufferInv'
<1> SUFFICES ASSUME BufferInv, [Next]_vars PROVE BufferInv'
  OBVIOUS
<1> USE MaxAssumption
    DEF BufferInv, ProducerLocations, ConsumerLocations, ProducerHas, ProducerMade,
        ConsumerHas, ConsumerLeft, ProducerIn, ConsumerIn
<1>1. CASE ProducerTakes
  BY <1>1 DEF ProducerTakes
<1>2. CASE ProducerLocks
  BY <1>2 DEF ProducerLocks
<1>3. CASE ProducerWorks
  BY <1>3 DEF ProducerWorks
<1>4. CASE ProducerPosts
  BY <1>4 DEF ProducerPosts
<1>5. CASE ProducerUnlocks
  BY <1>5 DEF ProducerUnlocks
<1>6. CASE ConsumerTakes
  BY <1>6 DEF ConsumerTakes
<1>7. CASE ConsumerLocks
  BY <1>7 DEF ConsumerLocks
<1>8. CASE ConsumerWorks
  BY <1>8 DEF ConsumerWorks
<1>9. CASE ConsumerPosts
  BY <1>9 DEF ConsumerPosts
<1>10. CASE ConsumerUnlocks
  BY <1>10 DEF ConsumerUnlocks
<1>11. CASE UNCHANGED vars
  BY <1>11 DEF vars
<1>12. QED
  BY <1>1, <1>2, <1>3, <1>4, <1>5, <1>6, <1>7, <1>8, <1>9, <1>10, <1>11
     DEF Next, Producer, Consumer

LEMMA InvSpec == Spec => []BufferInv
  BY InvInit, InvNext, PTL DEF Spec

\* Each variable keeps its type: in particular no semaphore and no count leaves
\* the range its use is meant for, and sem_post never overflows.
THEOREM TypeCorrect == Spec => []TypeOK
<1>1. BufferInv => TypeOK
  BY MaxAssumption
     DEF BufferInv, TypeOK, ProducerLocations, ConsumerLocations, ProducerHas, ProducerMade,
         ConsumerHas, ConsumerLeft, ProducerIn, ConsumerIn
<1>2. QED
  BY <1>1, InvSpec, PTL

\* producer and consumer never print at the same time.
THEOREM MutualExclusion == Spec => []Exclusion
<1>1. BufferInv => Exclusion
  BY DEF BufferInv, Exclusion, ProducerIn, ConsumerIn
<1>2. QED
  BY <1>1, InvSpec, PTL

\* With a place or more producer and consumer never wait for each other: of all
\* the places one is free, filled, or in the hands of somebody who goes on.
THEOREM DeadlockFree ==
  ASSUME MAX > 0
  PROVE  Spec => []NeverStuck
<1>1. BufferInv => NeverStuck
  BY MaxAssumption
     DEF BufferInv, NeverStuck, ProducerWaits, ConsumerWaits, ProducerHas, ConsumerHas, ProducerIn, ConsumerIn
<1>2. QED
  BY <1>1, InvSpec, PTL

\* Whatever MAX is, the program behaves as a buffer of MAX places: the producer
\* cooks only when fewer than MAX meals are left, the consumer eats only when
\* there is one.
THEOREM BufferRefined == Spec => ImplementsBuffer
<1>1. Init => Buf!BufferInit
  BY DEF Init, Buf!BufferInit
<1>2. BufferInv /\ [Next]_vars => [Buf!Produce \/ Buf!Consume]_food
  <2> SUFFICES ASSUME BufferInv, [Next]_vars
               PROVE  Buf!Produce \/ Buf!Consume \/ UNCHANGED food
    OBVIOUS
  <2>1. CASE ProducerWorks
    BY <2>1, MaxAssumption
       DEF ProducerWorks, Buf!Produce, BufferInv, ProducerHas, ProducerMade, ConsumerHas,
           ConsumerLeft, ConsumerLocations
  <2>2. CASE ConsumerWorks
    BY <2>2, MaxAssumption
       DEF ConsumerWorks, Buf!Consume, BufferInv, ProducerMade, ConsumerLeft
  <2>3. CASE ~ProducerWorks /\ ~ConsumerWorks
    BY <2>3
       DEF Next, Producer, Consumer, ProducerTakes, ProducerLocks, ProducerPosts,
           ProducerUnlocks, ConsumerTakes, ConsumerLocks, ConsumerPosts, ConsumerUnlocks, vars
  <2>4. QED
    BY <2>1, <2>2, <2>3
<1>3. QED
  BY <1>1, <1>2, InvSpec, PTL DEF Spec, ImplementsBuffer, Buf!BufferSpec
=============================================================================
