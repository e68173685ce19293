------------------------- MODULE ReaderWriterProofs -------------------------
(***************************************************************************)
(* ReaderWriter implements Room for any readers and writers.  The          *)
(* invariant says who may be where while each semaphore is taken: mutex    *)
(* protects noReaders, which counts the readers past their ++; empty is    *)
(* taken by one writer or, on behalf of all, by the readers inside.        *)
(***************************************************************************)
EXTENDS ReaderWriter, FiniteSetTheorems, TLAPS

Counted == {r \in Readers : pc[r] \in {"room", "open", "read", "leave", "out"}}

TurnHolders == {r \in Readers : pc[r] = "pass"}
                 \cup {w \in Writers : pc[w] \in {"room", "write", "pass"}}

MutexHolders == {r \in Readers : pc[r] \in {"in", "room", "open", "out", "close"}}

PlaceInv ==
  /\ pc \in [Threads -> ReaderLocations \cup WriterLocations]
  /\ \A r \in Readers : pc[r] \in ReaderLocations
  /\ \A w \in Writers : pc[w] \in WriterLocations

\* A binary semaphore and the threads that have it: when it is taken there is
\* one that will post it.
Guards(sem, holders) ==
  /\ sem \in {0, 1}
  /\ sem = 1 <=> holders = {}
  /\ \A t, u \in holders : t = u

CountInv == noReaders = Cardinality(Counted)

EmptyInv ==
  /\ empty \in {0, 1}
  /\ empty = 1 <=> Inside = {}
  /\ \A w \in Inside \cap Writers : \A t \in Inside : t = w
  /\ \A r \in Readers : pc[r] = "room" => Inside \cap Readers = {}

RWInv ==
  /\ PlaceInv
  /\ Guards(turn, TurnHolders)
  /\ Guards(mutex, MutexHolders)
  /\ CountInv
  /\ EmptyInv

-----------------------------------------------------------------------------
(* The counter.                                                            *)

\* The readers counted are finitely many, at most all.
LEMMA CountedFinite ==
  IsFiniteSet(Counted) /\ Cardinality(Counted) \in 0 .. Cardinality(Readers)
<1>1. Counted \subseteq Readers
  BY DEF Counted
<1>2. QED
  BY <1>1, ThreadsAssumption, FS_Subset, FS_CardinalityType

\* noReaders is zero when and only when nobody is counted.
LEMMA CountZero == ASSUME CountInv PROVE noReaders = 0 <=> Counted = {}
  BY CountedFinite, FS_EmptySet DEF CountInv

\* ++noReaders counts one more reader.
LEMMA CountUp ==
  ASSUME CountInv, NEW r \in Readers, r \notin Counted,
         noReaders' = noReaders + 1, Counted' = Counted \cup {r}
  PROVE  CountInv'
  BY CountedFinite, FS_AddElement DEF CountInv

\* --noReaders counts one less; the last one leaves nobody.
LEMMA CountDown ==
  ASSUME CountInv, NEW r \in Counted, noReaders' = noReaders - 1, Counted' = Counted \ {r}
  PROVE  CountInv' /\ (noReaders' = 0 <=> Counted' = {})
<1>1. IsFiniteSet(Counted') /\ Cardinality(Counted') = Cardinality(Counted) - 1
  BY CountedFinite, FS_RemoveElement
<1>2. QED
  BY <1>1, FS_EmptySet DEF CountInv

-----------------------------------------------------------------------------
(* The invariant.                                                          *)

LEMMA InvInit == Init => RWInv
<1> SUFFICES ASSUME Init PROVE RWInv
  OBVIOUS
<1>1. PlaceInv
  BY ThreadsAssumption DEF Init, PlaceInv, Threads, ReaderLocations, WriterLocations
<1>2. Counted = {} /\ TurnHolders = {} /\ MutexHolders = {} /\ Inside = {}
  BY DEF Init, Threads, Counted, TurnHolders, MutexHolders, Inside
<1>3. CountInv
  BY <1>2, FS_EmptySet DEF CountInv, Init
<1>4. \A r \in Readers : pc[r] # "room"
  BY DEF Init, Threads
<1>5. QED
  BY <1>1, <1>2, <1>3, <1>4 DEF RWInv, Guards, EmptyInv, Init

\* A step of one thread leaves the place of the others alone.
LEMMA PlaceNext == PlaceInv /\ [Next]_vars => PlaceInv'
<1> SUFFICES ASSUME PlaceInv, [Next]_vars PROVE PlaceInv'
  OBVIOUS
<1> USE ThreadsAssumption DEF PlaceInv, Threads, ReaderLocations, WriterLocations, Go
<1>1. CASE \E w \in Writers : writer(w)
  BY <1>1 DEF writer, TakeTurn, TakeRoom, Write, PassTurn, GiveRoom
<1>2. CASE \E r \in Readers : reader(r)
  <2> SUFFICES ASSUME NEW r \in Readers, reader(r) PROVE PlaceInv'
    BY <1>2
  <2>1. CASE TakeTurn(r) \/ PassTurn(r) \/ LockEnter(r) \/ ComeIn(r) \/ FirstIn(r)
    BY <2>1 DEF TakeTurn, PassTurn, LockEnter, ComeIn, FirstIn
  <2>2. CASE UnlockEnter(r) \/ Read(r) \/ LockLeave(r) \/ GoOut(r) \/ UnlockLeave(r)
    BY <2>2 DEF UnlockEnter, Read, LockLeave, GoOut, UnlockLeave
  <2>3. QED
    BY <2>1, <2>2 DEF reader
<1>3. CASE UNCHANGED vars
  BY <1>3 DEF vars
<1>4. QED
  BY <1>1, <1>2, <1>3 DEF Next

\* What a step that is not about the room does to those inside: nothing.
LEMMA OtherSteps ==
  ASSUME PlaceInv, NEW t \in Threads,
         \/ TakeTurn(t) \/ PassTurn(t)
         \/ t \in Writers /\ Write(t)
         \/ t \in Readers /\ (LockEnter(t) \/ UnlockEnter(t) \/ Read(t) \/ LockLeave(t) \/ UnlockLeave(t))
  PROVE  /\ Inside' = Inside /\ Counted' = Counted
         /\ UNCHANGED <<empty, noReaders>>
         /\ \A r \in Readers : pc'[r] = "room" => pc[r] = "room"
<1> USE ThreadsAssumption DEF PlaceInv, Threads, Go, Inside, Counted
<1>1. CASE t \in Writers
  BY <1>1 DEF TakeTurn, PassTurn, Write, WriterLocations
<1>2. CASE t \in Readers
  BY <1>2 DEF TakeTurn, PassTurn, LockEnter, UnlockEnter, Read, LockLeave, UnlockLeave
<1>3. QED
  BY <1>1, <1>2

\* So such a step keeps what is known of the counter and of empty.
LEMMA OtherKeep ==
  ASSUME CountInv, EmptyInv, Inside' = Inside, Counted' = Counted,
         UNCHANGED <<empty, noReaders>>,
         \A r \in Readers : pc'[r] = "room" => pc[r] = "room"
  PROVE  CountInv' /\ EmptyInv'
  BY DEF CountInv, EmptyInv

\* turn is held from its wait to its post, by one thread.
LEMMA TurnNext == PlaceInv /\ Guards(turn, TurnHolders) /\ [Next]_vars => Guards(turn, TurnHolders)'
<1> SUFFICES ASSUME PlaceInv, Guards(turn, TurnHolders), [Next]_vars
             PROVE  Guards(turn, TurnHolders)'
  OBVIOUS
<1> USE ThreadsAssumption DEF PlaceInv, Threads, Go, Guards, TurnHolders
<1>1. CASE \E t \in Threads : TakeTurn(t) \/ PassTurn(t)
  <2> SUFFICES ASSUME NEW t \in Threads, TakeTurn(t) \/ PassTurn(t)
               PROVE  Guards(turn, TurnHolders)'
    BY <1>1
  <2>1. CASE TakeTurn(t)
    <3>1. TurnHolders = {} /\ TurnHolders' = {t} /\ turn' = 0
      BY <2>1 DEF TakeTurn
    <3>2. QED
      BY <3>1
  <2>2. CASE PassTurn(t)
    <3>1. TurnHolders = {t}
      BY <2>2 DEF PassTurn, WriterLocations
    <3>2. turn = 0 /\ TurnHolders' = {} /\ turn' = 1
      BY <2>2, <3>1 DEF PassTurn
    <3>3. QED
      BY <3>2
  <2>3. QED
    BY <2>1, <2>2
<1>2. CASE \E w \in Writers : TakeRoom(w) \/ Write(w) \/ GiveRoom(w)
  <2>1. turn' = turn /\ TurnHolders' = TurnHolders
    BY <1>2 DEF TakeRoom, Write, GiveRoom
  <2>2. QED
    BY <2>1
<1>3. CASE \E r \in Readers : \/ LockEnter(r) \/ ComeIn(r) \/ FirstIn(r) \/ UnlockEnter(r)
                             \/ Read(r) \/ LockLeave(r) \/ GoOut(r) \/ UnlockLeave(r)
  <2>1. turn' = turn /\ TurnHolders' = TurnHolders
    BY <1>3 DEF LockEnter, ComeIn, FirstIn, UnlockEnter, Read, LockLeave, GoOut, UnlockLeave
  <2>2. QED
    BY <2>1
<1>4. CASE UNCHANGED vars
  BY <1>4 DEF vars
<1>5. QED
  BY <1>1, <1>2, <1>3, <1>4 DEF Next, reader, writer

\* mutex is held by one reader, from a wait to the post that follows it.
LEMMA MutexNext ==
  PlaceInv /\ Guards(mutex, MutexHolders) /\ [Next]_vars => Guards(mutex, MutexHolders)'
<1> SUFFICES ASSUME PlaceInv, Guards(mutex, MutexHolders), [Next]_vars
             PROVE  Guards(mutex, MutexHolders)'
  OBVIOUS
<1> USE ThreadsAssumption DEF PlaceInv, Threads, Go, Guards, MutexHolders
<1>1. CASE \E r \in Readers : LockEnter(r) \/ LockLeave(r)
  <2> SUFFICES ASSUME NEW r \in Readers, LockEnter(r) \/ LockLeave(r)
               PROVE  Guards(mutex, MutexHolders)'
    BY <1>1
  <2>1. MutexHolders = {} /\ MutexHolders' = {r} /\ mutex' = 0
    BY DEF LockEnter, LockLeave
  <2>2. QED
    BY <2>1
<1>2. CASE \E r \in Readers : UnlockEnter(r) \/ UnlockLeave(r)
  <2> SUFFICES ASSUME NEW r \in Readers, UnlockEnter(r) \/ UnlockLeave(r)
               PROVE  Guards(mutex, MutexHolders)'
    BY <1>2
  <2>1. MutexHolders = {r}
    BY DEF UnlockEnter, UnlockLeave
  <2>2. mutex = 0 /\ MutexHolders' = {} /\ mutex' = 1
    BY <2>1 DEF UnlockEnter, UnlockLeave
  <2>3. QED
    BY <2>2
<1>3. CASE \E r \in Readers : ComeIn(r) \/ FirstIn(r) \/ Read(r) \/ GoOut(r)
  <2>1. mutex' = mutex /\ MutexHolders' = MutexHolders
    BY <1>3 DEF ComeIn, FirstIn, Read, GoOut
  <2>2. QED
    BY <2>1
<1>4. CASE \E t \in Threads : TakeTurn(t) \/ PassTurn(t)
  <2>1. mutex' = mutex /\ MutexHolders' = MutexHolders
    BY <1>4 DEF TakeTurn, PassTurn
  <2>2. QED
    BY <2>1
<1>5. CASE \E w \in Writers : TakeRoom(w) \/ Write(w) \/ GiveRoom(w)
  <2>1. mutex' = mutex /\ MutexHolders' = MutexHolders
    BY <1>5 DEF TakeRoom, Write, GiveRoom
  <2>2. QED
    BY <2>1
<1>6. CASE UNCHANGED vars
  BY <1>6 DEF vars
<1>7. QED
  BY <1>1, <1>2, <1>3, <1>4, <1>5, <1>6 DEF Next, reader, writer, Threads

-----------------------------------------------------------------------------
(* The room: who enters and who leaves.                                    *)

\* A writer takes the empty room.
LEMMA TakeRoomStep ==
  ASSUME RWInv, NEW w \in Writers, TakeRoom(w)
  PROVE  CountInv' /\ EmptyInv' /\ Inside = {} /\ Inside' = {w}
<1> USE ThreadsAssumption DEF RWInv, PlaceInv, Threads, Go
<1>1. Inside = {} /\ empty' = 0
  BY DEF TakeRoom, EmptyInv
<1>2. Inside' = Inside \cup {w} /\ Counted' = Counted
  BY DEF TakeRoom, Inside, Counted
<1>3. \A r \in Readers : pc'[r] = "room" => Inside' \cap Readers = {}
  BY <1>1, <1>2
<1>4. QED
  BY <1>1, <1>2, <1>3 DEF TakeRoom, EmptyInv, CountInv

\* and gives it back.
LEMMA GiveRoomStep ==
  ASSUME RWInv, NEW w \in Writers, GiveRoom(w)
  PROVE  CountInv' /\ EmptyInv' /\ w \in Inside /\ Inside' = Inside \ {w}
<1> USE ThreadsAssumption DEF RWInv, PlaceInv, Threads, Go
<1>1. w \in Inside
  BY DEF GiveRoom, Inside
<1>2. Inside = {w} /\ empty = 0
  BY <1>1 DEF EmptyInv
<1>3. Inside' = Inside \ {w} /\ Counted' = Counted
  BY DEF GiveRoom, Inside, Counted
<1>4. QED
  BY <1>1, <1>2, <1>3 DEF GiveRoom, EmptyInv, CountInv

\* A reader that finds others counted is inside with them; the first one waits.
LEMMA ComeInStep ==
  ASSUME RWInv, NEW r \in Readers, ComeIn(r)
  PROVE  /\ CountInv' /\ EmptyInv'
         /\ \/ Inside' = Inside
            \/ r \notin Inside /\ Inside \cap Writers = {} /\ Inside' = Inside \cup {r}
<1> USE ThreadsAssumption DEF RWInv, PlaceInv, Threads, Go
<1>1. r \notin Counted /\ r \notin Inside /\ Counted' = Counted \cup {r}
  BY DEF ComeIn, Inside, Counted
<1>2. CountInv'
  BY <1>1, CountUp DEF ComeIn
<1>3. noReaders \in Nat
  BY CountedFinite DEF CountInv
<1>4. \A q \in Readers : pc[q] # "room"
  BY DEF Guards, MutexHolders, ComeIn
<1>5. CASE noReaders = 0
  <2>1. Counted = {}
    BY <1>5, CountZero
  <2>2. Inside' = Inside
    BY <1>3, <1>5 DEF ComeIn, Inside
  <2>3. Inside \cap Readers = {}
    BY <2>1 DEF Counted, Inside
  <2>4. QED
    BY <1>2, <2>2, <2>3 DEF EmptyInv, ComeIn
<1>6. CASE noReaders # 0
  <2>1. PICK q \in Readers : q \in Inside
    BY <1>4, <1>6, CountZero DEF Counted, Inside
  <2>0. noReaders + 1 # 1
    BY <1>3, <1>6
  <2>2. pc' = [pc EXCEPT ![r] = "open"]
    BY <2>0 DEF ComeIn
  <2>3. Inside' = Inside \cup {r}
    BY <2>2 DEF Inside
  <2>4. Inside \cap Writers = {} /\ empty = 0
    BY <2>1 DEF EmptyInv
  <2>5. \A p \in Readers : pc'[p] # "room"
    BY <1>4, <2>2
  <2>6. QED
    BY <1>1, <1>2, <2>3, <2>4, <2>5 DEF EmptyInv, ComeIn
<1>7. QED
  BY <1>5, <1>6

\* The first reader takes the empty room for all.
LEMMA FirstInStep ==
  ASSUME RWInv, NEW r \in Readers, FirstIn(r)
  PROVE  CountInv' /\ EmptyInv' /\ Inside = {} /\ Inside' = {r}
<1> USE ThreadsAssumption DEF RWInv, PlaceInv, Threads, Go
<1>1. Inside = {} /\ empty' = 0
  BY DEF FirstIn, EmptyInv
<1>2. Inside' = Inside \cup {r} /\ Counted' = Counted
  BY DEF FirstIn, Inside, Counted
<1>3. \A q \in Readers : pc'[q] # "room"
  BY DEF Guards, MutexHolders, FirstIn
<1>4. QED
  BY <1>1, <1>2, <1>3 DEF FirstIn, EmptyInv, CountInv

\* The last reader out gives it back, when nobody else is inside.
LEMMA GoOutStep ==
  ASSUME RWInv, NEW r \in Readers, GoOut(r)
  PROVE  CountInv' /\ EmptyInv' /\ r \in Inside /\ Inside' = Inside \ {r}
<1> USE ThreadsAssumption DEF RWInv, PlaceInv, Threads, Go
<1>1. r \in Counted /\ r \in Inside /\ Counted' = Counted \ {r} /\ Inside' = Inside \ {r}
  BY DEF GoOut, Inside, Counted
<1>2. CountInv' /\ (noReaders' = 0 <=> Counted' = {})
  BY <1>1, CountDown DEF GoOut
<1>3. empty = 0 /\ Inside \cap Writers = {}
  BY <1>1 DEF EmptyInv
<1>4. noReaders' = 0 => Inside' = {}
  <2> SUFFICES ASSUME Counted' = {} PROVE Inside' = {}
    BY <1>2
  <2>1. Inside' \cap Readers \subseteq Counted'
    BY DEF Inside, Counted
  <2>2. Inside' \subseteq Readers \cup Writers
    BY DEF Inside
  <2>3. QED
    BY <1>1, <1>3, <2>1, <2>2
<1>5. \A q \in Readers : pc'[q] # "room"
  BY DEF Guards, MutexHolders, GoOut
<1>8. Inside' = {} => noReaders' = 0
  <2>1. \A q \in Readers : q \in Counted' => q \in Inside'
    BY <1>5 DEF Inside, Counted
  <2>2. Counted' \subseteq Readers
    BY DEF Counted
  <2> QED
    BY <1>2, <2>1, <2>2
<1>6. empty' = IF noReaders' = 0 THEN 1 ELSE 0
  BY <1>3 DEF GoOut
<1>7. QED
  BY <1>1, <1>2, <1>3, <1>4, <1>5, <1>6, <1>8 DEF EmptyInv

-----------------------------------------------------------------------------

LEMMA InvNext == RWInv /\ [Next]_vars => RWInv'
<1> SUFFICES ASSUME RWInv, [Next]_vars PROVE RWInv'
  OBVIOUS
<1>1. PlaceInv' /\ Guards(turn, TurnHolders)' /\ Guards(mutex, MutexHolders)'
  BY PlaceNext, TurnNext, MutexNext DEF RWInv
<1>2. CountInv' /\ EmptyInv'
  <2>1. CASE \E w \in Writers : writer(w)
    BY <2>1, TakeRoomStep, GiveRoomStep, OtherSteps, OtherKeep DEF writer, RWInv, Threads
  <2>2. CASE \E r \in Readers : reader(r)
    BY <2>2, ComeInStep, FirstInStep, GoOutStep, OtherSteps, OtherKeep DEF reader, RWInv, Threads
  <2>3. CASE UNCHANGED vars
    BY <2>3 DEF vars, CountInv, EmptyInv, Counted, Inside, RWInv
  <2>4. QED
    BY <2>1, <2>2, <2>3 DEF Next
<1>3. QED
  BY <1>1, <1>2 DEF RWInv

LEMMA InvSpec == Spec => []RWInv
  BY InvInit, InvNext, PTL DEF Spec

\* The three semaphores stay binary and noReaders within the readers there are.
THEOREM TypeCorrect == Spec => []TypeOK
<1>1. RWInv => TypeOK
  BY CountedFinite DEF RWInv, PlaceInv, Guards, CountInv, EmptyInv, TypeOK
<1>2. QED
  BY <1>1, InvSpec, PTL

\* For any number of readers and writers, a writer is alone in the room and
\* readers share it with readers only.
THEOREM RoomRefined == Spec => ImplementsRoom
<1>1. Init => TheRoom!RoomInit
  BY ThreadsAssumption DEF Init, Threads, Inside, TheRoom!RoomInit
<1>2. RWInv /\ [Next]_vars => [TheRoom!RoomNext]_Inside
  <2> SUFFICES ASSUME RWInv, [Next]_vars PROVE TheRoom!RoomNext \/ Inside' = Inside
    OBVIOUS
  <2> USE ThreadsAssumption DEF TheRoom!RoomNext, TheRoom!Enter, TheRoom!Leave
  <2>1. ASSUME NEW w \in Writers, writer(w) PROVE TheRoom!RoomNext \/ Inside' = Inside
    <3>1. CASE TakeRoom(w)
      BY <3>1, TakeRoomStep
    <3>2. CASE GiveRoom(w)
      BY <3>2, GiveRoomStep
    <3>3. CASE TakeTurn(w) \/ Write(w) \/ PassTurn(w)
      BY <3>3, OtherSteps DEF RWInv, Threads
    <3>4. QED
      BY <2>1, <3>1, <3>2, <3>3 DEF writer
  <2>2. ASSUME NEW r \in Readers, reader(r) PROVE TheRoom!RoomNext \/ Inside' = Inside
    <3>1. CASE ComeIn(r)
      BY <3>1, ComeInStep
    <3>2. CASE FirstIn(r)
      BY <3>2, FirstInStep
    <3>3. CASE GoOut(r)
      BY <3>3, GoOutStep
    <3>4. CASE ~ComeIn(r) /\ ~FirstIn(r) /\ ~GoOut(r)
      BY <2>2, <3>4, OtherSteps DEF RWInv, Threads, reader
    <3>5. QED
      BY <3>1, <3>2, <3>3, <3>4
  <2>3. CASE UNCHANGED vars
    BY <2>3 DEF vars, Inside
  <2>4. QED
    BY <2>1, <2>2, <2>3 DEF Next
<1>3. QED
  BY <1>1, <1>2, InvSpec, PTL DEF Spec, ImplementsRoom, TheRoom!RoomSpec

\* While a writer waits for the room no reader comes for it: the writer has turn.
THEOREM NoReaderOvertakes == Spec => NoReaderStarts
<1>1. ASSUME RWInv, [Next]_vars, NEW w \in Writers, pc[w] = "room"
      PROVE  PastTurn' \subseteq PastTurn
  <2> USE ThreadsAssumption DEF Threads, Go, PastTurn
  <2>1. PlaceInv /\ turn = 0
    <3>1. w \in TurnHolders
      BY <1>1 DEF TurnHolders
    <3> QED
      BY <1>1, <3>1 DEF RWInv, Guards
  <2>2. CASE \E v \in Writers : writer(v)
    BY <2>1, <2>2 DEF writer, TakeTurn, TakeRoom, Write, PassTurn, GiveRoom, PlaceInv
  <2>3. CASE \E r \in Readers : reader(r)
    <3>1. PICK r \in Readers : reader(r)
      BY <2>3
    <3>2. ~TakeTurn(r)
      BY <2>1 DEF TakeTurn
    <3>3. pc[r] # "turn" /\ \A q \in Readers : q # r => pc'[q] = pc[q]
      BY <2>1, <3>1, <3>2
         DEF reader, PassTurn, LockEnter, ComeIn, FirstIn, UnlockEnter, Read, LockLeave, GoOut,
             UnlockLeave, PlaceInv
    <3> QED
      BY <3>3
  <2>4. CASE UNCHANGED vars
    BY <2>4 DEF vars
  <2> QED
    BY <1>1, <2>2, <2>3, <2>4 DEF Next
<1>2. RWInv /\ [Next]_vars => [(\E w \in Writers : pc[w] = "room") => PastTurn' \subseteq PastTurn]_vars
  BY <1>1
<1> QED
  BY <1>2, InvSpec, PTL DEF Spec, NoReaderStarts

\* Whoever waits for a semaphore waits, in the end, for a thread that can go on:
\* a waiter at empty for one inside, a waiter at mutex for its holder, a waiter at
\* turn for its holder, and no two of them for each other.
THEOREM DeadlockFree == Spec => []NeverStuck
<1>1. RWInv => NeverStuck
  <2> SUFFICES ASSUME RWInv, \A t \in Threads : Waits(t), NEW t \in Threads PROVE FALSE
    BY DEF NeverStuck
  <2> USE DEF RWInv, Threads
  <2>1. ~\E u \in Threads : pc[u] = "room"
    <3> SUFFICES ASSUME NEW u \in Threads, pc[u] = "room" PROVE FALSE
      OBVIOUS
    <3>1. empty = 0
      BY DEF Waits
    <3>2. PICK v : v \in Inside
      BY <3>1 DEF EmptyInv
    <3>3. v \in Readers /\ pc[v] = "leave" /\ mutex = 0
      BY <3>2 DEF Inside, Waits
    <3>4. PICK q : q \in MutexHolders
      BY <3>3 DEF Guards
    <3>5. q \in Readers /\ pc[q] = "room"
      BY <3>4 DEF MutexHolders, Waits
    <3> QED
      BY <3>2, <3>3, <3>5 DEF EmptyInv
  <2>2. ~\E u \in Threads : pc[u] \in {"enter", "leave"}
    <3> SUFFICES ASSUME NEW u \in Threads, pc[u] \in {"enter", "leave"} PROVE FALSE
      OBVIOUS
    <3>1. mutex = 0
      BY DEF Waits
    <3>2. PICK q : q \in MutexHolders
      BY <3>1 DEF Guards
    <3> QED
      BY <2>1, <3>2 DEF MutexHolders, Waits
  <2>3. \A u \in Threads : pc[u] = "turn" /\ turn = 0
    BY <2>1, <2>2 DEF Waits
  <2>4. PICK u : u \in TurnHolders
    BY <2>3 DEF Guards
  <2> QED
    BY <2>3, <2>4 DEF TurnHolders
<1> QED
  BY <1>1, InvSpec, PTL
=============================================================================
