-------------------------- MODULE FlightLocksProofs -------------------------
(***************************************************************************)
(* What is true of the semaphores of sistema.c for any number of           *)
(* gyroscopes, of engines and gyroscope_threads created, and any alarms.   *)
(***************************************************************************)
EXTENDS FlightLocks, FiniteSetTheorems, SequenceTheorems, WellFoundedInduction, TLAPS

-----------------------------------------------------------------------------
(* The names of the threads and of the semaphores.                         *)

LEMMA Classes ==
  /\ {RL, LC, MA, GU} \cap (SignalGyros \cup GyroThreads \cup Engines) = {}
  /\ SignalGyros \cap GyroThreads = {} /\ SignalGyros \cap Engines = {}
  /\ GyroThreads \cap Engines = {}
  /\ RL # LC /\ RL # MA /\ RL # GU /\ LC # MA /\ LC # GU /\ MA # GU
<1>1. /\ \A t \in SignalGyros : \E i : t = SG(i)
      /\ \A t \in GyroThreads : \E i, k : t = GT(i, k)
      /\ \A t \in Engines : \E k : t = PE(k)
  BY DEF SignalGyros, GyroThreads, Engines
<1>2. /\ \A i, j, k : SG(i) # GT(j, k) /\ SG(i) # PE(k) /\ GT(i, j) # PE(k)
      /\ \A i : SG(i) \notin {RL, LC, MA, GU} /\ PE(i) \notin {RL, LC, MA, GU}
      /\ \A i, k : GT(i, k) \notin {RL, LC, MA, GU}
  BY DEF SG, GT, PE, RL, LC, MA, GU
<1>3. RL # LC /\ RL # MA /\ RL # GU /\ LC # MA /\ LC # GU /\ MA # GU
  BY DEF RL, LC, MA, GU
<1> QED
  BY <1>1, <1>2, <1>3

Semaphores == Shared \cup Copies

LEMMA SemaphoreNames ==
  /\ Dist # Action /\ Dist # Gas /\ Action # Gas
  /\ \A i : Gs(i) # Dist /\ Gs(i) # Action /\ Gs(i) # Gas
  /\ \A i, j : Gs(i) = Gs(j) => i = j
  /\ \A t : Copy(t) # Dist /\ Copy(t) # Action /\ Copy(t) # Gas
  /\ \A t, i : Copy(t) # Gs(i)
  /\ \A t, u : Copy(t) = Copy(u) => t = u
<1>1. Dist # Action /\ Dist # Gas /\ Action # Gas
  BY DEF Dist, Action, Gas
<1>2. \A i : Gs(i) # Dist /\ Gs(i) # Action /\ Gs(i) # Gas
  BY DEF Dist, Action, Gas, Gs
<1>3. \A i, j : Gs(i) = Gs(j) => i = j
  BY DEF Gs
<1>4. \A t : Copy(t) # Dist /\ Copy(t) # Action /\ Copy(t) # Gas
  BY DEF Dist, Action, Gas, Copy
<1>5. \A t, i : Copy(t) # Gs(i)
  BY DEF Copy, Gs
<1>6. \A t, u : Copy(t) = Copy(u) => t = u
  BY DEF Copy
<1> QED
  BY <1>1, <1>2, <1>3, <1>4, <1>5, <1>6

LEMMA SharedNames ==
  /\ Dist \in Shared /\ Action \in Shared /\ Gas \in Shared /\ AllGs \subseteq Shared
  /\ \A i \in Gyros : Gs(i) \in AllGs
  /\ \A s \in AllGs : \E i \in Gyros : s = Gs(i)
  /\ Shared = {Dist, Action, Gas} \cup AllGs
  /\ \A t \in SignalGyros \cup GyroThreads : Copy(t) \in Copies
  /\ Shared \cap Copies = {}
  /\ \A t : Copy(t) \notin Shared
  /\ \A t : Copy(t) \in Copies => t \in SignalGyros \cup GyroThreads
<1>1. Shared = {Dist, Action, Gas} \cup AllGs
  BY DEF Shared, AllGs
<1>2. \A t : Copy(t) \notin Shared
  BY SemaphoreNames DEF Shared
<1>3. \A t : Copy(t) \in Copies => t \in SignalGyros \cup GyroThreads
  BY SemaphoreNames DEF Copies
<1> QED
  BY <1>1, <1>2, <1>3 DEF AllGs, Copies

-----------------------------------------------------------------------------
(* The operations, and where they stand in a turn.                         *)

Ops ==
  {Wait(s) : s \in Semaphores} \cup {Use(s) : s \in Semaphores}
    \cup {Post(S) : S \in SUBSET Semaphores}
    \cup {CancelThrusters, CreateThrusters, RestartEngine, WakeClimb, WakeGyro, Pause}

LEMMA OpNames ==
  /\ \A s : Wait(s)[1] = "wait" /\ Wait(s)[2] = s
  /\ \A s : Use(s)[1] = "use" /\ Use(s)[2] = s
  /\ \A S : Post(S)[1] = "post" /\ Post(S)[2] = S
  /\ CancelThrusters[1] = "cancel_thrusters" /\ CreateThrusters[1] = "create_thrusters"
  /\ RestartEngine[1] = "restart_engine" /\ WakeClimb[1] = "wake_climb"
  /\ WakeGyro[1] = "wake_gyro" /\ Pause[1] = "pause"
  BY DEF Wait, Use, Post, CancelThrusters, CreateThrusters, RestartEngine, WakeClimb, WakeGyro, Pause

LEMMA OpsFacts ==
  /\ \A s \in Semaphores : Wait(s) \in Ops /\ Use(s) \in Ops
  /\ \A S \in SUBSET Semaphores : Post(S) \in Ops
  /\ CancelThrusters \in Ops /\ CreateThrusters \in Ops /\ RestartEngine \in Ops
  /\ WakeClimb \in Ops /\ WakeGyro \in Ops /\ Pause \in Ops
  BY DEF Ops

LEMMA WaitGyrosFacts ==
  /\ WaitGyros \in Seq(Ops) /\ Len(WaitGyros) = NUM_GYROS
  /\ \A h \in 1..NUM_GYROS : WaitGyros[h] = Wait(Gs(h - 1))
<1>1. \A h \in 1..NUM_GYROS : h - 1 \in Gyros
  BY GyrosAssumption DEF Gyros
<1>2. \A h \in 1..NUM_GYROS : Wait(Gs(h - 1)) \in Ops
  BY <1>1, SharedNames, OpsFacts DEF Semaphores
<1>3. NUM_GYROS \in Nat
  BY GyrosAssumption
<1>4. WaitGyros \in [1..NUM_GYROS -> Ops]
  BY <1>2 DEF WaitGyros
<1> QED
  BY <1>3, <1>4 DEF WaitGyros

\* A turn that takes the semaphores of the gyroscopes between a and b.
LaidOut(turn, a, b) ==
  /\ turn \in Seq(Ops) /\ Len(turn) = Len(a) + NUM_GYROS + Len(b)
  /\ \A p \in 1..Len(a) : turn[p] = a[p]
  /\ \A h \in 1..NUM_GYROS : turn[Len(a) + h] = Wait(Gs(h - 1))
  /\ \A q \in 1..Len(b) : turn[Len(a) + NUM_GYROS + q] = b[q]

LEMMA Laid ==
  ASSUME NEW a \in Seq(Ops), NEW b \in Seq(Ops)
  PROVE  LaidOut(a \o WaitGyros \o b, a, b)
<1> DEFINE turn == a \o WaitGyros \o b
<1> DEFINE c == a \o WaitGyros
<1>0. NUM_GYROS \in Nat /\ Len(a) \in Nat /\ Len(b) \in Nat
  BY GyrosAssumption
<1>1. /\ c \in Seq(Ops) /\ Len(c) = Len(a) + NUM_GYROS
      /\ \A i \in 1..Len(a) + NUM_GYROS :
           c[i] = IF i <= Len(a) THEN a[i] ELSE WaitGyros[i - Len(a)]
  BY WaitGyrosFacts, ConcatProperties
<1> HIDE DEF c
<1>c. Len(c) = Len(a) + NUM_GYROS
  BY <1>1
<1>2. /\ c \o b \in Seq(Ops) /\ Len(c \o b) = Len(c) + Len(b)
      /\ \A i \in 1..Len(c) + Len(b) : (c \o b)[i] = IF i <= Len(c) THEN c[i] ELSE b[i - Len(c)]
  BY <1>1, ConcatProperties
<1>3. turn = c \o b
  BY DEF c
<1> HIDE DEF turn
<1>4. ASSUME NEW p \in 1..Len(a) PROVE turn[p] = a[p]
  BY <1>0, <1>1, <1>2, <1>3
<1>5. ASSUME NEW h \in 1..NUM_GYROS PROVE turn[Len(a) + h] = Wait(Gs(h - 1))
  <2>1. /\ Len(a) + h \in 1..Len(c) + Len(b) /\ Len(a) + h <= Len(c) /\ ~(Len(a) + h <= Len(a))
        /\ Len(a) + h \in 1..Len(a) + NUM_GYROS /\ (Len(a) + h) - Len(a) = h
    BY <1>0, <1>c
  <2> QED
    BY <2>1, <1>1, <1>2, <1>3, WaitGyrosFacts
<1>6. ASSUME NEW q \in 1..Len(b) PROVE turn[Len(a) + NUM_GYROS + q] = b[q]
  <2>1. /\ Len(a) + NUM_GYROS + q \in 1..Len(c) + Len(b) /\ ~(Len(a) + NUM_GYROS + q <= Len(c))
        /\ (Len(a) + NUM_GYROS + q) - Len(c) = q
    BY <1>0, <1>c
  <2> QED
    BY <2>1, <1>2, <1>3
<1> QED
  <2>1. turn \in Seq(Ops) /\ Len(turn) = Len(a) + NUM_GYROS + Len(b)
    BY <1>c, <1>2, <1>3
  <2>2. LaidOut(turn, a, b)
    BY <1>4, <1>5, <1>6, <2>1 DEF LaidOut
  <2> QED
    BY <2>2 DEF turn

-----------------------------------------------------------------------------
(* What a thread holds in the middle of a turn.                            *)

\* The semaphores that a turn has taken before its i-th operation and not posted.
HeldAt(turn, i) ==
  {s \in Semaphores : \E p \in 1..(i - 1) :
     /\ turn[p][1] = "wait" /\ turn[p][2] = s
     /\ \A q \in (p + 1)..(i - 1) : turn[q][1] = "post" => s \notin turn[q][2]}

LEMMA HeldFirst == \A turn : HeldAt(turn, 1) = {}
  BY DEF HeldAt

LEMMA HeldStep ==
  ASSUME NEW turn, NEW i \in Nat \ {0}
  PROVE  /\ \A s \in Semaphores : turn[i] = Wait(s) => HeldAt(turn, i + 1) = HeldAt(turn, i) \cup {s}
         /\ \A S : turn[i] = Post(S) => HeldAt(turn, i + 1) = HeldAt(turn, i) \ S
         /\ turn[i][1] \notin {"wait", "post"} => HeldAt(turn, i + 1) = HeldAt(turn, i)
<1>1. ASSUME NEW s, turn[i][1] = "post" => s \notin turn[i][2], s \in HeldAt(turn, i)
      PROVE  s \in HeldAt(turn, i + 1)
  <2> PICK p \in 1..(i - 1) :
        /\ turn[p][1] = "wait" /\ turn[p][2] = s
        /\ \A q \in (p + 1)..(i - 1) : turn[q][1] = "post" => s \notin turn[q][2]
    BY <1>1 DEF HeldAt
  <2>1. p \in 1..((i + 1) - 1)
    OBVIOUS
  <2>2. \A q \in (p + 1)..((i + 1) - 1) : q = i \/ q \in (p + 1)..(i - 1)
    OBVIOUS
  <2>3. s \in Semaphores
    BY <1>1 DEF HeldAt
  <2> QED
    BY <1>1, <2>1, <2>2, <2>3 DEF HeldAt
<1>2. ASSUME NEW s, s \in HeldAt(turn, i + 1)
      PROVE  /\ turn[i][1] = "post" => s \notin turn[i][2]
             /\ s \in HeldAt(turn, i) \/ (turn[i][1] = "wait" /\ turn[i][2] = s)
  <2> PICK p \in 1..((i + 1) - 1) :
        /\ turn[p][1] = "wait" /\ turn[p][2] = s
        /\ \A q \in (p + 1)..((i + 1) - 1) : turn[q][1] = "post" => s \notin turn[q][2]
    BY <1>2 DEF HeldAt
  <2>1. p = i \/ (p \in 1..(i - 1) /\ i \in (p + 1)..((i + 1) - 1))
    OBVIOUS
  <2>2. \A q \in (p + 1)..(i - 1) : q \in (p + 1)..((i + 1) - 1)
    OBVIOUS
  <2>3. s \in Semaphores
    BY <1>2 DEF HeldAt
  <2>4. CASE p = i
    BY <2>4
  <2>5. CASE p \in 1..(i - 1) /\ i \in (p + 1)..((i + 1) - 1)
    BY <2>2, <2>3, <2>5 DEF HeldAt
  <2> QED
    BY <2>1, <2>4, <2>5
<1>3. ASSUME NEW s \in Semaphores, turn[i] = Wait(s)
      PROVE  HeldAt(turn, i + 1) = HeldAt(turn, i) \cup {s}
  <2>1. turn[i][1] = "wait" /\ turn[i][2] = s
    BY <1>3, OpNames
  <2>2. s \in HeldAt(turn, i + 1)
    <3>1. i \in 1..((i + 1) - 1) /\ \A q \in (i + 1)..((i + 1) - 1) : FALSE
      OBVIOUS
    <3> QED
      BY <2>1, <3>1 DEF HeldAt
  <2> QED
    BY <1>1, <1>2, <2>1, <2>2
<1>4. ASSUME NEW S, turn[i] = Post(S) PROVE HeldAt(turn, i + 1) = HeldAt(turn, i) \ S
  <2>1. turn[i][1] = "post" /\ turn[i][2] = S
    BY <1>4, OpNames
  <2> QED
    BY <1>1, <1>2, <2>1
<1>5. ASSUME turn[i][1] \notin {"wait", "post"} PROVE HeldAt(turn, i + 1) = HeldAt(turn, i)
  BY <1>1, <1>2, <1>5
<1> QED
  BY <1>3, <1>4, <1>5

\* The semaphores of the first n gyroscopes.
Lower(n) == {Gs(g) : g \in 0..(n - 1)}

LEMMA LowerAll == Lower(NUM_GYROS) = AllGs /\ Lower(0) = {}
  BY GyrosAssumption DEF Lower, AllGs, Gyros

\* The three cases of a step, for position j after i.
LEMMA HeldWait ==
  ASSUME NEW turn, NEW i \in Nat \ {0}, NEW j, j = i + 1, NEW s \in Semaphores, turn[i] = Wait(s)
  PROVE  HeldAt(turn, j) = HeldAt(turn, i) \cup {s}
  BY HeldStep

LEMMA HeldPost ==
  ASSUME NEW turn, NEW i \in Nat \ {0}, NEW j, j = i + 1, NEW S, turn[i] = Post(S)
  PROVE  HeldAt(turn, j) = HeldAt(turn, i) \ S
  BY HeldStep

LEMMA HeldOther ==
  ASSUME NEW turn, NEW i \in Nat \ {0}, NEW j, j = i + 1, turn[i][1] \notin {"wait", "post"}
  PROVE  HeldAt(turn, j) = HeldAt(turn, i)
  BY HeldStep

\* The loop over the gyroscopes takes their semaphores in order.
LEMMA GyroRun ==
  ASSUME NEW turn, NEW a \in Nat,
         \A h \in 1..NUM_GYROS : turn[a + h] = Wait(Gs(h - 1)),
         NEW n \in 0..NUM_GYROS
  PROVE  HeldAt(turn, a + n + 1) = HeldAt(turn, a + 1) \cup Lower(n)
<1>0. NUM_GYROS \in Nat
  BY GyrosAssumption
<1>1. \A h \in 1..NUM_GYROS : turn[a + h][1] = "wait" /\ turn[a + h][2] = Gs(h - 1)
  BY OpNames
<1>2. ASSUME NEW q \in (a + 1)..(a + n) PROVE turn[q][1] = "wait" /\ turn[q][2] = Gs(q - a - 1)
  <2>1. q - a \in 1..NUM_GYROS /\ a + (q - a) = q
    BY <1>0
  <2> QED
    BY <1>1, <2>1
<1>3. ASSUME NEW s \in HeldAt(turn, a + 1) PROVE s \in HeldAt(turn, a + n + 1)
  <2> PICK p \in 1..((a + 1) - 1) :
        /\ turn[p][1] = "wait" /\ turn[p][2] = s
        /\ \A q \in (p + 1)..((a + 1) - 1) : turn[q][1] = "post" => s \notin turn[q][2]
    BY DEF HeldAt
  <2>1. p \in 1..((a + n + 1) - 1)
    BY <1>0
  <2>2. \A q \in (p + 1)..((a + n + 1) - 1) : q \in (p + 1)..((a + 1) - 1) \/ q \in (a + 1)..(a + n)
    BY <1>0
  <2>3. \A q \in (p + 1)..((a + n + 1) - 1) : turn[q][1] = "post" => s \notin turn[q][2]
    BY <1>2, <2>2
  <2> QED
    BY <2>1, <2>3 DEF HeldAt
<1>4. ASSUME NEW g \in 0..(n - 1) PROVE Gs(g) \in HeldAt(turn, a + n + 1)
  <2>1. /\ a + g + 1 \in (a + 1)..(a + n) /\ a + g + 1 \in 1..((a + n + 1) - 1)
        /\ (a + g + 1) - a - 1 = g /\ g \in Gyros
    BY <1>0 DEF Gyros
  <2>2. turn[a + g + 1][1] = "wait" /\ turn[a + g + 1][2] = Gs(g)
    BY <1>2, <2>1
  <2>3. \A q \in ((a + g + 1) + 1)..((a + n + 1) - 1) : q \in (a + 1)..(a + n)
    BY <1>0
  <2>4. Gs(g) \in Semaphores
    BY <2>1, SharedNames DEF Semaphores
  <2> QED
    BY <1>2, <2>1, <2>2, <2>3, <2>4 DEF HeldAt
<1>5. ASSUME NEW s \in HeldAt(turn, a + n + 1) PROVE s \in HeldAt(turn, a + 1) \cup Lower(n)
  <2> PICK p \in 1..((a + n + 1) - 1) :
        /\ turn[p][1] = "wait" /\ turn[p][2] = s
        /\ \A q \in (p + 1)..((a + n + 1) - 1) : turn[q][1] = "post" => s \notin turn[q][2]
    BY DEF HeldAt
  <2>1. p \in 1..((a + 1) - 1) \/ p \in (a + 1)..(a + n)
    BY <1>0
  <2>2. CASE p \in 1..((a + 1) - 1)
    <3>1. \A q \in (p + 1)..((a + 1) - 1) : q \in (p + 1)..((a + n + 1) - 1)
      BY <1>0
    <3> QED
      BY <2>2, <3>1 DEF HeldAt
  <2>3. CASE p \in (a + 1)..(a + n)
    <3>1. s = Gs(p - a - 1) /\ p - a - 1 \in 0..(n - 1)
      BY <1>0, <1>2, <2>3
    <3> QED
      BY <3>1 DEF Lower
  <2> QED
    BY <2>1, <2>2, <2>3
<1> QED
  BY <1>3, <1>4, <1>5 DEF Lower

-----------------------------------------------------------------------------
(* The turns.                                                              *)

DistActionGs == {Dist, Action} \cup AllGs

\* Semaphore s is taken by a thread that holds H, in the order sem_dist,
\* sem_action, sem_gs[0], sem_gs[1], ..., with sem_gas at the end of it.
Climbs(s, H) ==
  \/ s = Dist /\ H = {}
  \/ s = Action /\ H = {Dist}
  \/ \E g \in Gyros : s = Gs(g) /\ H = {Dist, Action} \cup Lower(g)
  \/ s = Gas

LEMMA MainFacts ==
  /\ Dist \in Semaphores /\ Action \in Semaphores /\ Gas \in Semaphores
  /\ AllGs \subseteq Semaphores /\ DistActionGs \subseteq Semaphores
  /\ \A g \in Gyros : Lower(g) \subseteq AllGs
  /\ NUM_GYROS \in Nat /\ NUM_GYROS > 0
<1>1. NUM_GYROS \in Nat /\ NUM_GYROS > 0
  BY GyrosAssumption
<1>2. \A g \in Gyros : Lower(g) \subseteq AllGs
  BY <1>1 DEF Lower, AllGs, Gyros
<1> QED
  BY <1>1, <1>2, SharedNames DEF Semaphores, DistActionGs

\* The beginning of the turns of the engine and of signal_restart_landing.
TakeThen(b) == <<Wait(Dist), Wait(Action)>> \o WaitGyros \o b

LEMMA LaidTwo ==
  ASSUME NEW b \in Seq(Ops), NEW turn, turn = TakeThen(b)
  PROVE  /\ turn \in Seq(Ops) /\ Len(turn) = NUM_GYROS + 2 + Len(b)
         /\ turn[1] = Wait(Dist) /\ turn[2] = Wait(Action)
         /\ \A h \in 1..NUM_GYROS : turn[2 + h] = Wait(Gs(h - 1))
         /\ \A q \in 1..Len(b) : turn[NUM_GYROS + 2 + q] = b[q]
<1> DEFINE a == <<Wait(Dist), Wait(Action)>>
<1>0. NUM_GYROS \in Nat /\ Len(b) \in Nat
  BY MainFacts
<1>1. Wait(Dist) \in Ops /\ Wait(Action) \in Ops
  BY OpsFacts, MainFacts
<1>2. a \in Seq(Ops) /\ Len(a) = 2 /\ a[1] = Wait(Dist) /\ a[2] = Wait(Action)
  BY <1>1
<1>a. a \in Seq(Ops)
  BY <1>2
<1>3. turn = a \o WaitGyros \o b
  BY DEF TakeThen
<1> HIDE DEF a
<1>b. LaidOut(a \o WaitGyros \o b, a, b)
  BY <1>a, Laid
<1>4. /\ turn \in Seq(Ops) /\ Len(turn) = Len(a) + NUM_GYROS + Len(b)
      /\ \A p \in 1..Len(a) : turn[p] = a[p]
      /\ \A h \in 1..NUM_GYROS : turn[Len(a) + h] = Wait(Gs(h - 1))
      /\ \A q \in 1..Len(b) : turn[Len(a) + NUM_GYROS + q] = b[q]
  BY <1>3, <1>b DEF LaidOut
<1>5. Len(a) = 2 /\ Len(a) + NUM_GYROS = NUM_GYROS + 2
  BY <1>0, <1>2
<1>6. 1 \in 1..Len(a) /\ 2 \in 1..Len(a)
  BY <1>5
<1>7. \A p \in 1..Len(a) : turn[p] = a[p]
  BY <1>4
<1>8. turn[1] = Wait(Dist) /\ turn[2] = Wait(Action)
  BY <1>2, <1>6, <1>7
<1>9. Len(turn) = NUM_GYROS + 2 + Len(b)
  BY <1>4, <1>5
<1>10. \A h \in 1..NUM_GYROS : turn[2 + h] = Wait(Gs(h - 1))
  BY <1>4, <1>5
<1>11. \A q \in 1..Len(b) : turn[NUM_GYROS + 2 + q] = b[q]
  BY <1>4, <1>5
<1> QED
  BY <1>4, <1>8, <1>9, <1>10, <1>11

LEMMA Taking ==
  ASSUME NEW turn, turn[1] = Wait(Dist), turn[2] = Wait(Action),
         \A h \in 1..NUM_GYROS : turn[2 + h] = Wait(Gs(h - 1))
  PROVE  /\ \A i \in 1..(NUM_GYROS + 2) :
              /\ turn[i][1] = "wait" /\ Climbs(turn[i][2], HeldAt(turn, i))
              /\ HeldAt(turn, i) \subseteq DistActionGs
         /\ HeldAt(turn, NUM_GYROS + 3) = DistActionGs
<1>0. NUM_GYROS \in Nat /\ NUM_GYROS > 0
  BY MainFacts
<1>6. HeldAt(turn, 1) = {} /\ HeldAt(turn, 2) = {Dist} /\ HeldAt(turn, 3) = {Dist, Action}
  <2>1. HeldAt(turn, 1) = {}
    BY HeldFirst
  <2>2. HeldAt(turn, 2) = HeldAt(turn, 1) \cup {Dist}
    BY HeldWait, MainFacts
  <2>3. HeldAt(turn, 3) = HeldAt(turn, 2) \cup {Action}
    BY HeldWait, MainFacts
  <2> QED
    BY <2>1, <2>2, <2>3
<1>7. ASSUME NEW n \in 0..NUM_GYROS PROVE HeldAt(turn, n + 3) = {Dist, Action} \cup Lower(n)
  <2>1. HeldAt(turn, 2 + n + 1) = HeldAt(turn, 2 + 1) \cup Lower(n)
    BY GyroRun
  <2>2. 2 + n + 1 = n + 3 /\ 2 + 1 = 3
    BY <1>0
  <2> QED
    BY <1>6, <2>1, <2>2
<1>8. HeldAt(turn, NUM_GYROS + 3) = DistActionGs
  BY <1>0, <1>7, LowerAll DEF DistActionGs
<1>9. ASSUME NEW i \in 1..(NUM_GYROS + 2)
      PROVE  /\ turn[i][1] = "wait" /\ Climbs(turn[i][2], HeldAt(turn, i))
             /\ HeldAt(turn, i) \subseteq DistActionGs
  <2>1. CASE i = 1
    BY <1>6, <2>1, OpNames DEF Climbs, DistActionGs
  <2>2. CASE i = 2
    BY <1>6, <2>2, OpNames DEF Climbs, DistActionGs
  <2>3. CASE i \in 3..(NUM_GYROS + 2)
    <3> DEFINE h == i - 2
    <3>1. h \in 1..NUM_GYROS /\ 2 + h = i /\ h - 1 \in 0..NUM_GYROS /\ (h - 1) + 3 = i
          /\ h - 1 \in Gyros
      BY <1>0, <2>3 DEF Gyros
    <3> HIDE DEF h
    <3>2. turn[i] = Wait(Gs(h - 1)) /\ HeldAt(turn, i) = {Dist, Action} \cup Lower(h - 1)
      BY <1>7, <3>1
    <3>3. turn[i][1] = "wait" /\ turn[i][2] = Gs(h - 1)
      BY <3>2, OpNames
    <3>4. Lower(h - 1) \subseteq AllGs
      BY <3>1, MainFacts
    <3> QED
      BY <3>1, <3>2, <3>3, <3>4 DEF Climbs, DistActionGs
  <2> QED
    BY <1>0, <2>1, <2>2, <2>3
<1> QED
  BY <1>8, <1>9

\* The semaphores of the gyroscopes alone, in their order, and then sem_action.
Cuts(op, H) ==
  \/ op[2] = Dist /\ H = {}
  \/ \E g \in Gyros : op[2] = Gs(g) /\ H = Lower(g)
  \/ op = change_action /\ H = AllGs

\* The beginning of the turns of signal_landing_check.
LandThen(b) == <<Use(Dist)>> \o WaitGyros \o b

LEMMA LaidOne ==
  ASSUME NEW b \in Seq(Ops), NEW turn, turn = LandThen(b)
  PROVE  /\ turn \in Seq(Ops) /\ Len(turn) = NUM_GYROS + 1 + Len(b)
         /\ turn[1] = Use(Dist)
         /\ \A h \in 1..NUM_GYROS : turn[1 + h] = Wait(Gs(h - 1))
         /\ \A q \in 1..Len(b) : turn[NUM_GYROS + 1 + q] = b[q]
<1> DEFINE a == <<Use(Dist)>>
<1>0. NUM_GYROS \in Nat /\ Len(b) \in Nat
  BY MainFacts
<1>1. Use(Dist) \in Ops
  BY OpsFacts, MainFacts
<1>2. a \in Seq(Ops) /\ Len(a) = 1 /\ a[1] = Use(Dist)
  BY <1>1
<1>a. a \in Seq(Ops)
  BY <1>2
<1>3. turn = a \o WaitGyros \o b
  BY DEF LandThen
<1> HIDE DEF a
<1>b. LaidOut(a \o WaitGyros \o b, a, b)
  BY <1>a, Laid
<1>4. /\ turn \in Seq(Ops) /\ Len(turn) = Len(a) + NUM_GYROS + Len(b)
      /\ \A p \in 1..Len(a) : turn[p] = a[p]
      /\ \A h \in 1..NUM_GYROS : turn[Len(a) + h] = Wait(Gs(h - 1))
      /\ \A q \in 1..Len(b) : turn[Len(a) + NUM_GYROS + q] = b[q]
  BY <1>3, <1>b DEF LaidOut
<1>5. Len(a) = 1 /\ Len(a) + NUM_GYROS = NUM_GYROS + 1
  BY <1>0, <1>2
<1>6. 1 \in 1..Len(a)
  BY <1>5
<1>7. \A p \in 1..Len(a) : turn[p] = a[p]
  BY <1>4
<1>8. turn[1] = Use(Dist)
  BY <1>2, <1>6, <1>7
<1>9. Len(turn) = NUM_GYROS + 1 + Len(b)
  BY <1>4, <1>5
<1>10. \A h \in 1..NUM_GYROS : turn[1 + h] = Wait(Gs(h - 1))
  BY <1>4, <1>5
<1>11. \A q \in 1..Len(b) : turn[NUM_GYROS + 1 + q] = b[q]
  BY <1>4, <1>5
<1> QED
  BY <1>4, <1>8, <1>9, <1>10, <1>11

LEMMA TakingGyros ==
  ASSUME NEW turn, turn[1] = Use(Dist),
         \A h \in 1..NUM_GYROS : turn[1 + h] = Wait(Gs(h - 1))
  PROVE  /\ \A i \in 1..(NUM_GYROS + 1) :
              /\ turn[i][1] \in {"wait", "use"} /\ Cuts(turn[i], HeldAt(turn, i))
              /\ HeldAt(turn, i) \subseteq AllGs
         /\ HeldAt(turn, NUM_GYROS + 2) = AllGs
<1>0. NUM_GYROS \in Nat /\ NUM_GYROS > 0
  BY MainFacts
<1>6. HeldAt(turn, 1) = {} /\ HeldAt(turn, 2) = {}
  <2>1. HeldAt(turn, 1) = {}
    BY HeldFirst
  <2>2. turn[1][1] = "use"
    BY OpNames
  <2>3. HeldAt(turn, 2) = HeldAt(turn, 1)
    BY <2>2, HeldOther
  <2> QED
    BY <2>1, <2>3
<1>7. ASSUME NEW n \in 0..NUM_GYROS PROVE HeldAt(turn, n + 2) = Lower(n)
  <2>1. HeldAt(turn, 1 + n + 1) = HeldAt(turn, 1 + 1) \cup Lower(n)
    BY GyroRun
  <2>2. 1 + n + 1 = n + 2 /\ 1 + 1 = 2
    BY <1>0
  <2> QED
    BY <1>6, <2>1, <2>2
<1>8. HeldAt(turn, NUM_GYROS + 2) = AllGs
  BY <1>0, <1>7, LowerAll
<1>9. ASSUME NEW i \in 1..(NUM_GYROS + 1)
      PROVE  /\ turn[i][1] \in {"wait", "use"} /\ Cuts(turn[i], HeldAt(turn, i))
             /\ HeldAt(turn, i) \subseteq AllGs
  <2>1. CASE i = 1
    BY <1>6, <2>1, OpNames DEF Cuts
  <2>2. CASE i \in 2..(NUM_GYROS + 1)
    <3> DEFINE h == i - 1
    <3>1. h \in 1..NUM_GYROS /\ 1 + h = i /\ h - 1 \in 0..NUM_GYROS /\ (h - 1) + 2 = i
          /\ h - 1 \in Gyros
      BY <1>0, <2>2 DEF Gyros
    <3> HIDE DEF h
    <3>2. turn[i] = Wait(Gs(h - 1)) /\ HeldAt(turn, i) = Lower(h - 1)
      BY <1>7, <3>1
    <3>3. turn[i][1] = "wait" /\ turn[i][2] = Gs(h - 1)
      BY <3>2, OpNames
    <3>4. Lower(h - 1) \subseteq AllGs
      BY <3>1, MainFacts
    <3> QED
      BY <3>1, <3>2, <3>3, <3>4 DEF Cuts
  <2> QED
    BY <1>0, <2>1, <2>2
<1> QED
  BY <1>8, <1>9

\* A turn is well formed: it posts only what it holds and keeps nothing.
Fits(turn, mine) ==
  /\ turn \in Seq(Ops) /\ Len(turn) > 0
  /\ \A i \in 1..Len(turn) :
       /\ turn[i][1] = "post" => turn[i][2] \subseteq HeldAt(turn, i)
       /\ HeldAt(turn, i) \subseteq mine
  /\ HeldAt(turn, Len(turn) + 1) = {}

\* Where a thread that holds H can block.
Blocks(t, op, H) ==
  \/ H = {}
  \/ op[2] = Gas
  \/ op[2] = Copy(t) /\ Copy(t) \notin H
  \/ t \in Engines \cup {RL} /\ Climbs(op[2], H)
  \/ t = RL /\ op = change_action /\ H = {Dist} \cup AllGs
  \/ t = LC /\ Cuts(op, H)

Orderly(t, turn) ==
  \A i \in 1..Len(turn) :
    turn[i][1] \in {"wait", "use"} => Blocks(t, turn[i], HeldAt(turn, i))

LEMMA AllPosted ==
  /\ DistActionGs = AllGs \cup {Action, Dist}
  /\ AllGs \cup {Action, Dist} \in SUBSET Semaphores
  /\ {Action} \in SUBSET Semaphores /\ AllGs \cup {Dist} \in SUBSET Semaphores
  /\ AllGs \in SUBSET Semaphores
  /\ DistActionGs \ {Action} = AllGs \cup {Dist}
<1>1. Action \notin AllGs /\ Dist # Action
  BY SemaphoreNames DEF AllGs
<1> QED
  BY <1>1, MainFacts DEF DistActionGs

LEMMA EngineFits ==
  ASSUME NEW t \in Engines
  PROVE  Fits(EngineTurn, DistActionGs) /\ Orderly(t, EngineTurn)
<1> DEFINE b == <<Use(Gas), Post(AllGs \cup {Action, Dist})>>
           turn == TakeThen(b)
           n == NUM_GYROS
<1>0. n \in Nat /\ n > 0
  BY MainFacts
<1>1. Use(Gas) \in Ops /\ Post(AllGs \cup {Action, Dist}) \in Ops
  BY OpsFacts, MainFacts, AllPosted
<1>2. b \in Seq(Ops) /\ Len(b) = 2 /\ b[1] = Use(Gas) /\ b[2] = Post(AllGs \cup {Action, Dist})
  BY <1>1
<1>3. EngineTurn = turn
  BY DEF EngineTurn, TakeThen
<1> HIDE DEF b, turn
<1>4. /\ turn \in Seq(Ops) /\ Len(turn) = n + 2 + Len(b)
      /\ turn[1] = Wait(Dist) /\ turn[2] = Wait(Action)
      /\ \A h \in 1..n : turn[2 + h] = Wait(Gs(h - 1))
      /\ \A q \in 1..Len(b) : turn[n + 2 + q] = b[q]
  BY <1>2, LaidTwo DEF turn
<1>5. /\ \A i \in 1..(n + 2) :
           /\ turn[i][1] = "wait" /\ Climbs(turn[i][2], HeldAt(turn, i))
           /\ HeldAt(turn, i) \subseteq DistActionGs
      /\ HeldAt(turn, n + 3) = DistActionGs
  BY <1>4, Taking
<1> HIDE DEF n
<1>6. Len(turn) = n + 4 /\ \A i \in 1..Len(turn) : i \in 1..(n + 2) \/ i = n + 3 \/ i = n + 4
  BY <1>0, <1>2, <1>4
<1>7. turn[n + 3] = Use(Gas) /\ turn[n + 4] = Post(AllGs \cup {Action, Dist})
  <2>1. turn[n + 2 + 1] = b[1] /\ turn[n + 2 + 2] = b[2]
    BY <1>2, <1>4
  <2>2. n + 2 + 1 = n + 3 /\ n + 2 + 2 = n + 4
    BY <1>0
  <2> QED
    BY <1>2, <2>1, <2>2
<1>8. /\ turn[n + 3][1] = "use" /\ turn[n + 3][2] = Gas
      /\ turn[n + 4][1] = "post" /\ turn[n + 4][2] = AllGs \cup {Action, Dist}
  BY <1>7, OpNames
<1>9. HeldAt(turn, n + 4) = DistActionGs
  <2>1. n + 3 \in Nat \ {0} /\ n + 4 = (n + 3) + 1
    BY <1>0
  <2> QED
    BY <1>5, <1>8, <2>1, HeldOther
<1>10. HeldAt(turn, n + 5) = {}
  <2>1. n + 4 \in Nat \ {0} /\ n + 5 = (n + 4) + 1
    BY <1>0
  <2>2. HeldAt(turn, n + 5) = HeldAt(turn, n + 4) \ (AllGs \cup {Action, Dist})
    BY <1>7, <2>1, HeldPost
  <2> QED
    BY <1>9, <2>2, AllPosted
<1>11. Fits(turn, DistActionGs)
  <2>1. Len(turn) > 0 /\ Len(turn) + 1 = n + 5
    BY <1>0, <1>6
  <2>2. ASSUME NEW i \in 1..Len(turn)
        PROVE  /\ turn[i][1] = "post" => turn[i][2] \subseteq HeldAt(turn, i)
               /\ HeldAt(turn, i) \subseteq DistActionGs
    BY <1>5, <1>6, <1>8, <1>9, AllPosted
  <2> QED
    BY <1>4, <1>10, <2>1, <2>2 DEF Fits
<1>12. Orderly(t, turn)
  <2> SUFFICES ASSUME NEW i \in 1..Len(turn), turn[i][1] \in {"wait", "use"}
               PROVE  Blocks(t, turn[i], HeldAt(turn, i))
    BY DEF Orderly
  <2>1. i \in 1..(n + 2) \/ turn[i][2] = Gas
    BY <1>6, <1>8
  <2> QED
    BY <1>5, <2>1 DEF Blocks
<1> QED
  BY <1>3, <1>11, <1>12

LEMMA RestartFits == Fits(RestartTurn, DistActionGs) /\ Orderly(RL, RestartTurn)
<1> DEFINE b == <<Post({Action}), change_action, Post(AllGs \cup {Dist}), CancelThrusters, WakeClimb>>
           turn == TakeThen(b)
           n == NUM_GYROS
<1>0. n \in Nat /\ n > 0
  BY MainFacts
<1>1. /\ Post({Action}) \in Ops /\ change_action \in Ops /\ Post(AllGs \cup {Dist}) \in Ops
      /\ CancelThrusters \in Ops /\ WakeClimb \in Ops
  BY OpsFacts, MainFacts, AllPosted DEF change_action
<1>2. /\ b \in Seq(Ops) /\ Len(b) = 5
      /\ b[1] = Post({Action}) /\ b[2] = change_action /\ b[3] = Post(AllGs \cup {Dist})
      /\ b[4] = CancelThrusters /\ b[5] = WakeClimb
  BY <1>1
<1>3. RestartTurn = turn
  BY DEF RestartTurn, TakeThen
<1> HIDE DEF b, turn
<1>4. /\ turn \in Seq(Ops) /\ Len(turn) = n + 2 + Len(b)
      /\ turn[1] = Wait(Dist) /\ turn[2] = Wait(Action)
      /\ \A h \in 1..n : turn[2 + h] = Wait(Gs(h - 1))
      /\ \A q \in 1..Len(b) : turn[n + 2 + q] = b[q]
  BY <1>2, LaidTwo DEF turn
<1>5. /\ \A i \in 1..(n + 2) :
           /\ turn[i][1] = "wait" /\ Climbs(turn[i][2], HeldAt(turn, i))
           /\ HeldAt(turn, i) \subseteq DistActionGs
      /\ HeldAt(turn, n + 3) = DistActionGs
  BY <1>4, Taking
<1> HIDE DEF n
<1>6. /\ Len(turn) = n + 7
      /\ \A i \in 1..Len(turn) : i \in 1..(n + 2) \/ i \in {n + 3, n + 4, n + 5, n + 6, n + 7}
  BY <1>0, <1>2, <1>4
<1>7. /\ turn[n + 3] = Post({Action}) /\ turn[n + 4] = change_action
      /\ turn[n + 5] = Post(AllGs \cup {Dist})
      /\ turn[n + 6] = CancelThrusters /\ turn[n + 7] = WakeClimb
  <2>1. /\ turn[n + 2 + 1] = b[1] /\ turn[n + 2 + 2] = b[2] /\ turn[n + 2 + 3] = b[3]
        /\ turn[n + 2 + 4] = b[4] /\ turn[n + 2 + 5] = b[5]
    BY <1>2, <1>4
  <2>2. /\ n + 2 + 1 = n + 3 /\ n + 2 + 2 = n + 4 /\ n + 2 + 3 = n + 5
        /\ n + 2 + 4 = n + 6 /\ n + 2 + 5 = n + 7
    BY <1>0
  <2> QED
    BY <1>2, <2>1, <2>2
<1>8. /\ turn[n + 3][1] = "post" /\ turn[n + 3][2] = {Action}
      /\ turn[n + 4][1] = "use"
      /\ turn[n + 5][1] = "post" /\ turn[n + 5][2] = AllGs \cup {Dist}
      /\ turn[n + 6][1] = "cancel_thrusters" /\ turn[n + 7][1] = "wake_climb"
  BY <1>7, OpNames DEF change_action
<1>9. HeldAt(turn, n + 4) = AllGs \cup {Dist}
  <2>1. n + 3 \in Nat \ {0} /\ n + 4 = (n + 3) + 1
    BY <1>0
  <2>2. HeldAt(turn, n + 4) = HeldAt(turn, n + 3) \ {Action}
    BY <1>7, <2>1, HeldPost
  <2> QED
    BY <1>5, <2>2, AllPosted
<1>10. HeldAt(turn, n + 5) = AllGs \cup {Dist}
  <2>1. n + 4 \in Nat \ {0} /\ n + 5 = (n + 4) + 1
    BY <1>0
  <2> QED
    BY <1>8, <1>9, <2>1, HeldOther
<1>11. HeldAt(turn, n + 6) = {}
  <2>1. n + 5 \in Nat \ {0} /\ n + 6 = (n + 5) + 1
    BY <1>0
  <2>2. HeldAt(turn, n + 6) = HeldAt(turn, n + 5) \ (AllGs \cup {Dist})
    BY <1>7, <2>1, HeldPost
  <2> QED
    BY <1>10, <2>2
<1>12. HeldAt(turn, n + 7) = {} /\ HeldAt(turn, n + 8) = {}
  <2>1. /\ n + 6 \in Nat \ {0} /\ n + 7 = (n + 6) + 1
        /\ n + 7 \in Nat \ {0} /\ n + 8 = (n + 7) + 1
    BY <1>0
  <2> QED
    BY <1>8, <1>11, <2>1, HeldOther
<1>13. Fits(turn, DistActionGs)
  <2>1. Len(turn) > 0 /\ Len(turn) + 1 = n + 8
    BY <1>0, <1>6
  <2>2. ASSUME NEW i \in 1..Len(turn)
        PROVE  /\ turn[i][1] = "post" => turn[i][2] \subseteq HeldAt(turn, i)
               /\ HeldAt(turn, i) \subseteq DistActionGs
    <3>1. {Action} \subseteq DistActionGs /\ AllGs \cup {Dist} \subseteq DistActionGs
      BY AllPosted
    <3>2. CASE i \in 1..(n + 2)
      BY <1>5, <3>2
    <3>3. CASE i \in {n + 3, n + 4, n + 5}
      BY <1>5, <1>8, <1>9, <1>10, <3>1, <3>3
    <3>4. CASE i \in {n + 6, n + 7}
      BY <1>8, <1>11, <1>12, <3>4
    <3> QED
      BY <1>6, <3>2, <3>3, <3>4
  <2> QED
    BY <1>4, <1>12, <2>1, <2>2 DEF Fits
<1>14. Orderly(RL, turn)
  <2> SUFFICES ASSUME NEW i \in 1..Len(turn), turn[i][1] \in {"wait", "use"}
               PROVE  Blocks(RL, turn[i], HeldAt(turn, i))
    BY DEF Orderly
  <2>1. i \in 1..(n + 2) \/ i = n + 4
    BY <1>6, <1>8
  <2>2. {Dist} \cup AllGs = AllGs \cup {Dist}
    OBVIOUS
  <2> QED
    BY <1>5, <1>7, <1>9, <2>1, <2>2 DEF Blocks
<1> QED
  BY <1>3, <1>13, <1>14

LEMMA NoRestartFits == Fits(NoRestartTurn, DistActionGs) /\ Orderly(RL, NoRestartTurn)
<1> DEFINE b == <<Post(AllGs \cup {Action, Dist})>>
           turn == TakeThen(b)
           n == NUM_GYROS
<1>0. n \in Nat /\ n > 0
  BY MainFacts
<1>1. Post(AllGs \cup {Action, Dist}) \in Ops
  BY OpsFacts, MainFacts, AllPosted
<1>2. b \in Seq(Ops) /\ Len(b) = 1 /\ b[1] = Post(AllGs \cup {Action, Dist})
  BY <1>1
<1>3. NoRestartTurn = turn
  BY DEF NoRestartTurn, TakeThen
<1> HIDE DEF b, turn
<1>4. /\ turn \in Seq(Ops) /\ Len(turn) = n + 2 + Len(b)
      /\ turn[1] = Wait(Dist) /\ turn[2] = Wait(Action)
      /\ \A h \in 1..n : turn[2 + h] = Wait(Gs(h - 1))
      /\ \A q \in 1..Len(b) : turn[n + 2 + q] = b[q]
  BY <1>2, LaidTwo DEF turn
<1>5. /\ \A i \in 1..(n + 2) :
           /\ turn[i][1] = "wait" /\ Climbs(turn[i][2], HeldAt(turn, i))
           /\ HeldAt(turn, i) \subseteq DistActionGs
      /\ HeldAt(turn, n + 3) = DistActionGs
  BY <1>4, Taking
<1> HIDE DEF n
<1>6. Len(turn) = n + 3 /\ \A i \in 1..Len(turn) : i \in 1..(n + 2) \/ i = n + 3
  BY <1>0, <1>2, <1>4
<1>7. turn[n + 3] = Post(AllGs \cup {Action, Dist})
  <2>1. turn[n + 2 + 1] = b[1]
    BY <1>2, <1>4
  <2>2. n + 2 + 1 = n + 3
    BY <1>0
  <2> QED
    BY <1>2, <2>1, <2>2
<1>8. turn[n + 3][1] = "post" /\ turn[n + 3][2] = AllGs \cup {Action, Dist}
  BY <1>7, OpNames
<1>9. HeldAt(turn, n + 4) = {}
  <2>1. n + 3 \in Nat \ {0} /\ n + 4 = (n + 3) + 1
    BY <1>0
  <2>2. HeldAt(turn, n + 4) = HeldAt(turn, n + 3) \ (AllGs \cup {Action, Dist})
    BY <1>7, <2>1, HeldPost
  <2> QED
    BY <1>5, <2>2, AllPosted
<1>10. Fits(turn, DistActionGs)
  <2>1. Len(turn) > 0 /\ Len(turn) + 1 = n + 4
    BY <1>0, <1>6
  <2>2. ASSUME NEW i \in 1..Len(turn)
        PROVE  /\ turn[i][1] = "post" => turn[i][2] \subseteq HeldAt(turn, i)
               /\ HeldAt(turn, i) \subseteq DistActionGs
    BY <1>5, <1>6, <1>8, AllPosted
  <2> QED
    BY <1>4, <1>9, <2>1, <2>2 DEF Fits
<1>11. Orderly(RL, turn)
  <2> SUFFICES ASSUME NEW i \in 1..Len(turn), turn[i][1] \in {"wait", "use"}
               PROVE  Blocks(RL, turn[i], HeldAt(turn, i))
    BY DEF Orderly
  <2>1. i \in 1..(n + 2)
    BY <1>6, <1>8
  <2> QED
    BY <1>5, <2>1 DEF Blocks
<1> QED
  BY <1>3, <1>10, <1>11

LEMMA LandingFits == Fits(LandingTurn, AllGs) /\ Orderly(LC, LandingTurn)
<1> DEFINE b == <<Post(AllGs)>>
           turn == LandThen(b)
           n == NUM_GYROS
<1>0. n \in Nat /\ n > 0
  BY MainFacts
<1>1. Post(AllGs) \in Ops
  BY OpsFacts, AllPosted
<1>2. b \in Seq(Ops) /\ Len(b) = 1 /\ b[1] = Post(AllGs)
  BY <1>1
<1>3. LandingTurn = turn
  BY DEF LandingTurn, LandThen
<1> HIDE DEF b, turn
<1>4. /\ turn \in Seq(Ops) /\ Len(turn) = n + 1 + Len(b)
      /\ turn[1] = Use(Dist)
      /\ \A h \in 1..n : turn[1 + h] = Wait(Gs(h - 1))
      /\ \A q \in 1..Len(b) : turn[n + 1 + q] = b[q]
  BY <1>2, LaidOne DEF turn
<1>5. /\ \A i \in 1..(n + 1) :
           /\ turn[i][1] \in {"wait", "use"} /\ Cuts(turn[i], HeldAt(turn, i))
           /\ HeldAt(turn, i) \subseteq AllGs
      /\ HeldAt(turn, n + 2) = AllGs
  BY <1>4, TakingGyros
<1> HIDE DEF n
<1>6. Len(turn) = n + 2 /\ \A i \in 1..Len(turn) : i \in 1..(n + 1) \/ i = n + 2
  BY <1>0, <1>2, <1>4
<1>7. turn[n + 2] = Post(AllGs)
  <2>1. turn[n + 1 + 1] = b[1]
    BY <1>2, <1>4
  <2>2. n + 1 + 1 = n + 2
    BY <1>0
  <2> QED
    BY <1>2, <2>1, <2>2
<1>8. turn[n + 2][1] = "post" /\ turn[n + 2][2] = AllGs
  BY <1>7, OpNames
<1>9. HeldAt(turn, n + 3) = {}
  <2>1. n + 2 \in Nat \ {0} /\ n + 3 = (n + 2) + 1
    BY <1>0
  <2>2. HeldAt(turn, n + 3) = HeldAt(turn, n + 2) \ AllGs
    BY <1>7, <2>1, HeldPost
  <2> QED
    BY <1>5, <2>2
<1>10. Fits(turn, AllGs)
  <2>1. Len(turn) > 0 /\ Len(turn) + 1 = n + 3
    BY <1>0, <1>6
  <2>2. ASSUME NEW i \in 1..Len(turn)
        PROVE  /\ turn[i][1] = "post" => turn[i][2] \subseteq HeldAt(turn, i)
               /\ HeldAt(turn, i) \subseteq AllGs
    BY <1>5, <1>6, <1>8
  <2> QED
    BY <1>4, <1>9, <2>1, <2>2 DEF Fits
<1>11. Orderly(LC, turn)
  <2> SUFFICES ASSUME NEW i \in 1..Len(turn), turn[i][1] \in {"wait", "use"}
               PROVE  Blocks(LC, turn[i], HeldAt(turn, i))
    BY DEF Orderly
  <2>1. i \in 1..(n + 1)
    BY <1>6, <1>8
  <2> QED
    BY <1>5, <2>1 DEF Blocks
<1> QED
  BY <1>3, <1>10, <1>11

LEMMA CutFits == Fits(CutTurn, AllGs) /\ Orderly(LC, CutTurn)
<1> DEFINE b == <<change_action, CancelThrusters, Post(AllGs)>>
           turn == LandThen(b)
           n == NUM_GYROS
<1>0. n \in Nat /\ n > 0
  BY MainFacts
<1>1. change_action \in Ops /\ CancelThrusters \in Ops /\ Post(AllGs) \in Ops
  BY OpsFacts, MainFacts, AllPosted DEF change_action
<1>2. /\ b \in Seq(Ops) /\ Len(b) = 3
      /\ b[1] = change_action /\ b[2] = CancelThrusters /\ b[3] = Post(AllGs)
  BY <1>1
<1>3. CutTurn = turn
  BY DEF CutTurn, LandThen
<1> HIDE DEF b, turn
<1>4. /\ turn \in Seq(Ops) /\ Len(turn) = n + 1 + Len(b)
      /\ turn[1] = Use(Dist)
      /\ \A h \in 1..n : turn[1 + h] = Wait(Gs(h - 1))
      /\ \A q \in 1..Len(b) : turn[n + 1 + q] = b[q]
  BY <1>2, LaidOne DEF turn
<1>5. /\ \A i \in 1..(n + 1) :
           /\ turn[i][1] \in {"wait", "use"} /\ Cuts(turn[i], HeldAt(turn, i))
           /\ HeldAt(turn, i) \subseteq AllGs
      /\ HeldAt(turn, n + 2) = AllGs
  BY <1>4, TakingGyros
<1> HIDE DEF n
<1>6. /\ Len(turn) = n + 4
      /\ \A i \in 1..Len(turn) : i \in 1..(n + 1) \/ i \in {n + 2, n + 3, n + 4}
  BY <1>0, <1>2, <1>4
<1>7. turn[n + 2] = change_action /\ turn[n + 3] = CancelThrusters /\ turn[n + 4] = Post(AllGs)
  <2>1. turn[n + 1 + 1] = b[1] /\ turn[n + 1 + 2] = b[2] /\ turn[n + 1 + 3] = b[3]
    BY <1>2, <1>4
  <2>2. n + 1 + 1 = n + 2 /\ n + 1 + 2 = n + 3 /\ n + 1 + 3 = n + 4
    BY <1>0
  <2> QED
    BY <1>2, <2>1, <2>2
<1>8. /\ turn[n + 2][1] = "use" /\ turn[n + 3][1] = "cancel_thrusters"
      /\ turn[n + 4][1] = "post" /\ turn[n + 4][2] = AllGs
  BY <1>7, OpNames DEF change_action
<1>9. HeldAt(turn, n + 3) = AllGs /\ HeldAt(turn, n + 4) = AllGs
  <2>1. /\ n + 2 \in Nat \ {0} /\ n + 3 = (n + 2) + 1
        /\ n + 3 \in Nat \ {0} /\ n + 4 = (n + 3) + 1
    BY <1>0
  <2> QED
    BY <1>5, <1>8, <2>1, HeldOther
<1>10. HeldAt(turn, n + 5) = {}
  <2>1. n + 4 \in Nat \ {0} /\ n + 5 = (n + 4) + 1
    BY <1>0
  <2>2. HeldAt(turn, n + 5) = HeldAt(turn, n + 4) \ AllGs
    BY <1>7, <2>1, HeldPost
  <2> QED
    BY <1>9, <2>2
<1>11. Fits(turn, AllGs)
  <2>1. Len(turn) > 0 /\ Len(turn) + 1 = n + 5
    BY <1>0, <1>6
  <2>2. ASSUME NEW i \in 1..Len(turn)
        PROVE  /\ turn[i][1] = "post" => turn[i][2] \subseteq HeldAt(turn, i)
               /\ HeldAt(turn, i) \subseteq AllGs
    BY <1>5, <1>6, <1>8, <1>9
  <2> QED
    BY <1>4, <1>10, <2>1, <2>2 DEF Fits
<1>12. Orderly(LC, turn)
  <2> SUFFICES ASSUME NEW i \in 1..Len(turn), turn[i][1] \in {"wait", "use"}
               PROVE  Blocks(LC, turn[i], HeldAt(turn, i))
    BY DEF Orderly
  <2>1. i \in 1..(n + 1) \/ i = n + 2
    BY <1>6, <1>8
  <2>2. Cuts(turn[n + 2], HeldAt(turn, n + 2))
    BY <1>5, <1>7 DEF Cuts
  <2> QED
    BY <1>5, <2>1, <2>2 DEF Blocks
<1> QED
  BY <1>3, <1>11, <1>12

\* A turn that takes nothing for longer than a step.
LEMMA IdleFits ==
  ASSUME NEW t, NEW turn \in Seq(Ops), Len(turn) > 0,
         \A i \in 1..Len(turn) : turn[i][1] \notin {"wait", "post"}
  PROVE  \A mine : Fits(turn, mine) /\ Orderly(t, turn)
<1> TAKE mine
<1>0. Len(turn) \in Nat
  OBVIOUS
<1>1. ASSUME NEW i \in 1..(Len(turn) + 1) PROVE HeldAt(turn, i) = {}
  <2>1. \A p \in 1..(i - 1) : p \in 1..Len(turn)
    BY <1>0
  <2> QED
    BY <2>1 DEF HeldAt
<1>2. Len(turn) + 1 \in 1..(Len(turn) + 1) /\ \A i \in 1..Len(turn) : i \in 1..(Len(turn) + 1)
  BY <1>0
<1> QED
  BY <1>1, <1>2 DEF Fits, Orderly, Blocks

\* Three parts one after the other.
Joins(turn, a, b, c) ==
  /\ turn \in Seq(Ops) /\ Len(turn) = Len(a) + Len(b) + Len(c)
  /\ \A p \in 1..Len(a) : turn[p] = a[p]
  /\ \A p \in 1..Len(b) : turn[Len(a) + p] = b[p]
  /\ \A p \in 1..Len(c) : turn[Len(a) + Len(b) + p] = c[p]

LEMMA Joined ==
  ASSUME NEW a \in Seq(Ops), NEW b \in Seq(Ops), NEW c \in Seq(Ops)
  PROVE  Joins(a \o b \o c, a, b, c)
<1> DEFINE turn == a \o b \o c
           d == a \o b
<1>0. Len(a) \in Nat /\ Len(b) \in Nat /\ Len(c) \in Nat
  OBVIOUS
<1>1. /\ d \in Seq(Ops) /\ Len(d) = Len(a) + Len(b)
      /\ \A i \in 1..Len(a) + Len(b) : d[i] = IF i <= Len(a) THEN a[i] ELSE b[i - Len(a)]
  BY ConcatProperties
<1>2. turn = d \o c
  OBVIOUS
<1> HIDE DEF d, turn
<1>d. d \in Seq(Ops)
  BY <1>1
<1>3. /\ d \o c \in Seq(Ops) /\ Len(d \o c) = Len(d) + Len(c)
      /\ \A i \in 1..Len(d) + Len(c) : (d \o c)[i] = IF i <= Len(d) THEN d[i] ELSE c[i - Len(d)]
  BY <1>d, ConcatProperties
<1>4. ASSUME NEW p \in 1..Len(a) PROVE turn[p] = a[p]
  <2>1. p \in 1..Len(d) + Len(c) /\ p <= Len(d) /\ p \in 1..Len(a) + Len(b) /\ p <= Len(a)
    BY <1>0, <1>1
  <2> QED
    BY <2>1, <1>1, <1>2, <1>3
<1>5. ASSUME NEW p \in 1..Len(b) PROVE turn[Len(a) + p] = b[p]
  <2>1. /\ Len(a) + p \in 1..Len(d) + Len(c) /\ Len(a) + p <= Len(d)
        /\ Len(a) + p \in 1..Len(a) + Len(b) /\ ~(Len(a) + p <= Len(a)) /\ (Len(a) + p) - Len(a) = p
    BY <1>0, <1>1
  <2> QED
    BY <2>1, <1>1, <1>2, <1>3
<1>6. ASSUME NEW p \in 1..Len(c) PROVE turn[Len(a) + Len(b) + p] = c[p]
  <2>1. /\ Len(a) + Len(b) + p \in 1..Len(d) + Len(c) /\ ~(Len(a) + Len(b) + p <= Len(d))
        /\ (Len(a) + Len(b) + p) - Len(d) = p
    BY <1>0, <1>1
  <2> QED
    BY <2>1, <1>2, <1>3
<1>7. turn \in Seq(Ops) /\ Len(turn) = Len(a) + Len(b) + Len(c)
  BY <1>1, <1>2, <1>3
<1>8. Joins(turn, a, b, c)
  BY <1>4, <1>5, <1>6, <1>7 DEF Joins
<1> QED
  BY <1>8 DEF turn

LEMMA SignalGyroFits ==
  ASSUME NEW t \in SignalGyros, NEW turn \in SignalGyroTurns(t)
  PROVE  Fits(turn, {Action, Copy(t)}) /\ Orderly(t, turn)
<1> DEFINE P == {Action, Copy(t)}
<1>1. Action \in Semaphores /\ Copy(t) \in Semaphores /\ P \in SUBSET Semaphores
  BY SharedNames DEF Semaphores
<1>2. /\ Wait(Action) \in Ops /\ Wait(Copy(t)) \in Ops /\ WakeGyro \in Ops /\ Post(P) \in Ops
  BY <1>1, OpsFacts
<1> DEFINE a == <<Wait(Action), Wait(Copy(t))>>
           c == <<Post(P)>>
<1>3. /\ a \in Seq(Ops) /\ Len(a) = 2 /\ a[1] = Wait(Action) /\ a[2] = Wait(Copy(t))
      /\ c \in Seq(Ops) /\ Len(c) = 1 /\ c[1] = Post(P)
  BY <1>2
<1>a. PICK wake \in {<<>>, <<WakeGyro>>} : turn = a \o wake \o c
  BY DEF SignalGyroTurns
<1>b. wake \in Seq(Ops) /\ (Len(wake) = 0 \/ (Len(wake) = 1 /\ wake[1] = WakeGyro))
  <2>1. CASE wake = <<>>
    BY <2>1, EmptySeq
  <2>2. CASE wake = <<WakeGyro>>
    BY <1>2, <2>2
  <2> QED
    BY <2>1, <2>2
<1> HIDE DEF P, a, c
<1>c. /\ turn \in Seq(Ops) /\ Len(turn) = Len(a) + Len(wake) + Len(c)
      /\ \A p \in 1..Len(a) : turn[p] = a[p]
      /\ \A p \in 1..Len(wake) : turn[Len(a) + p] = wake[p]
      /\ \A p \in 1..Len(c) : turn[Len(a) + Len(wake) + p] = c[p]
  <2>1. Joins(a \o wake \o c, a, wake, c)
    BY <1>3, <1>b, Joined
  <2> QED
    BY <1>a, <2>1 DEF Joins
<1>4. \E last \in {3, 4} :
        /\ turn \in Seq(Ops) /\ Len(turn) = last
        /\ turn[1] = Wait(Action) /\ turn[2] = Wait(Copy(t)) /\ turn[last] = Post(P)
        /\ last = 4 => turn[3] = WakeGyro
  <2>1. turn[1] = Wait(Action) /\ turn[2] = Wait(Copy(t))
    BY <1>3, <1>c
  <2>2. CASE Len(wake) = 0
    BY <1>3, <1>c, <2>1, <2>2
  <2>3. CASE Len(wake) = 1 /\ wake[1] = WakeGyro
    BY <1>3, <1>c, <2>1, <2>3
  <2> QED
    BY <1>b, <2>2, <2>3
<1> PICK last \in {3, 4} :
        /\ turn \in Seq(Ops) /\ Len(turn) = last
        /\ turn[1] = Wait(Action) /\ turn[2] = Wait(Copy(t)) /\ turn[last] = Post(P)
        /\ last = 4 => turn[3] = WakeGyro
  BY <1>4
<1>5. HeldAt(turn, 1) = {} /\ HeldAt(turn, 2) = {Action} /\ HeldAt(turn, 3) = P
  <2>1. HeldAt(turn, 1) = {}
    BY HeldFirst
  <2>2. HeldAt(turn, 2) = HeldAt(turn, 1) \cup {Action}
    BY <1>1, HeldWait
  <2>3. HeldAt(turn, 3) = HeldAt(turn, 2) \cup {Copy(t)}
    BY <1>1, HeldWait
  <2> QED
    BY <2>1, <2>2, <2>3 DEF P
<1>6. HeldAt(turn, last) = P
  <2>1. CASE last = 3
    BY <1>5, <2>1
  <2>2. CASE last = 4
    <3>1. turn[3][1] \notin {"wait", "post"}
      BY <2>2, OpNames
    <3>2. HeldAt(turn, 4) = HeldAt(turn, 3)
      BY <3>1, HeldOther
    <3> QED
      BY <1>5, <2>2, <3>2
  <2> QED
    BY <2>1, <2>2
<1>7. HeldAt(turn, last + 1) = {}
  <2>1. HeldAt(turn, last + 1) = HeldAt(turn, last) \ P
    BY HeldPost
  <2> QED
    BY <1>6, <2>1
<1>8. /\ turn[1][1] = "wait" /\ turn[1][2] = Action /\ turn[2][1] = "wait" /\ turn[2][2] = Copy(t)
      /\ turn[last][1] = "post" /\ turn[last][2] = P
      /\ last = 4 => turn[3][1] = "wake_gyro"
  BY OpNames
<1>9. \A i \in 1..Len(turn) : i \in {1, 2, last} \/ (i = 3 /\ last = 4)
  OBVIOUS
<1>10. Fits(turn, P)
  <2>1. Len(turn) > 0
    OBVIOUS
  <2>2. {Action} \subseteq P
    BY DEF P
  <2>3. ASSUME NEW i \in 1..Len(turn)
        PROVE  /\ turn[i][1] = "post" => turn[i][2] \subseteq HeldAt(turn, i)
               /\ HeldAt(turn, i) \subseteq P
    BY <1>5, <1>6, <1>8, <1>9, <2>2
  <2> QED
    BY <1>7, <2>1, <2>3 DEF Fits
<1>11. Orderly(t, turn)
  <2> SUFFICES ASSUME NEW i \in 1..Len(turn), turn[i][1] \in {"wait", "use"}
               PROVE  Blocks(t, turn[i], HeldAt(turn, i))
    BY DEF Orderly
  <2>1. i = 1 \/ i = 2
    BY <1>8, <1>9
  <2>2. Copy(t) \notin {Action}
    BY SemaphoreNames
  <2> QED
    BY <1>5, <1>8, <2>1, <2>2 DEF Blocks
<1> QED
  BY <1>10, <1>11 DEF P

LEMMA GyroThreadFits ==
  ASSUME NEW t \in GyroThreads, NEW turn \in {CorrectTurn(t), LevelTurn(t)}
  PROVE  Fits(turn, {Copy(t)}) /\ Orderly(t, turn)
<1>1. Copy(t) \in Semaphores /\ Gas \in Semaphores /\ {Copy(t)} \in SUBSET Semaphores
  BY SharedNames DEF Semaphores
<1>2. /\ Wait(Copy(t)) \in Ops /\ Use(Gas) \in Ops /\ Post({Copy(t)}) \in Ops
      /\ Use(Copy(t)) \in Ops /\ Pause \in Ops
  BY <1>1, OpsFacts
<1>3. CASE turn = LevelTurn(t)
  <2>1. turn \in Seq(Ops) /\ Len(turn) = 2 /\ turn[1] = Use(Copy(t)) /\ turn[2] = Pause
    BY <1>2, <1>3 DEF LevelTurn
  <2>2. turn[1][1] = "use" /\ turn[2][1] = "pause"
    BY <2>1, OpNames
  <2>3. Len(turn) > 0 /\ \A i \in 1..Len(turn) : turn[i][1] \notin {"wait", "post"}
    BY <2>1, <2>2
  <2> QED
    BY <2>1, <2>3, IdleFits
<1>4. CASE turn = CorrectTurn(t)
  <2>1. /\ turn \in Seq(Ops) /\ Len(turn) = 3
        /\ turn[1] = Wait(Copy(t)) /\ turn[2] = Use(Gas) /\ turn[3] = Post({Copy(t)})
    BY <1>2, <1>4 DEF CorrectTurn
  <2>2. /\ turn[1][1] = "wait" /\ turn[2][1] = "use" /\ turn[2][2] = Gas
        /\ turn[3][1] = "post" /\ turn[3][2] = {Copy(t)}
    BY <2>1, OpNames
  <2>3. HeldAt(turn, 1) = {}
    BY HeldFirst
  <2>4. HeldAt(turn, 2) = HeldAt(turn, 1) \cup {Copy(t)}
    BY <1>1, <2>1, HeldWait
  <2>5. HeldAt(turn, 3) = HeldAt(turn, 2)
    BY <2>2, HeldOther
  <2>6. HeldAt(turn, 4) = HeldAt(turn, 3) \ {Copy(t)}
    BY <2>1, HeldPost
  <2>7. \A i \in 1..Len(turn) : i \in {1, 2, 3}
    BY <2>1
  <2>8. Fits(turn, {Copy(t)})
    <3>1. Len(turn) > 0 /\ Len(turn) + 1 = 4
      BY <2>1
    <3> QED
      BY <2>1, <2>2, <2>3, <2>4, <2>5, <2>6, <2>7, <3>1 DEF Fits
  <2>9. Orderly(t, turn)
    BY <2>2, <2>3, <2>7 DEF Orderly, Blocks
  <2> QED
    BY <2>8, <2>9
<1> QED
  BY <1>3, <1>4

LEMMA ClimbFits ==
  ASSUME NEW turn \in {ClimbTurn, TopTurn}
  PROVE  Fits(turn, {}) /\ Orderly(GU, turn)
<1>1. Use(Dist) \in Ops /\ CreateThrusters \in Ops /\ change_action \in Ops /\ Pause \in Ops
  BY OpsFacts, MainFacts DEF change_action
<1>2. CASE turn = ClimbTurn
  <2>1. turn \in Seq(Ops) /\ Len(turn) = 1 /\ turn[1] = Use(Dist)
    BY <1>1, <1>2 DEF ClimbTurn
  <2>a. turn[1][1] = "use"
    BY <2>1, OpNames
  <2>2. Len(turn) > 0 /\ \A i \in 1..Len(turn) : turn[i][1] \notin {"wait", "post"}
    BY <2>1, <2>a
  <2> QED
    BY <2>1, <2>2, IdleFits
<1>3. CASE turn = TopTurn
  <2>1. /\ turn \in Seq(Ops) /\ Len(turn) = 4
        /\ turn[1] = Use(Dist) /\ turn[2] = CreateThrusters /\ turn[3] = change_action
        /\ turn[4] = Pause
    BY <1>1, <1>3 DEF TopTurn
  <2>2. /\ turn[1][1] = "use" /\ turn[2][1] = "create_thrusters" /\ turn[3][1] = "use"
        /\ turn[4][1] = "pause"
    BY <2>1, OpNames DEF change_action
  <2>3. Len(turn) > 0 /\ \A i \in 1..Len(turn) : turn[i][1] \notin {"wait", "post"}
    BY <2>1, <2>2
  <2> QED
    BY <2>1, <2>3, IdleFits
<1> QED
  BY <1>2, <1>3

LEMMA ManualFits ==
  ASSUME NEW w \in AlarmWork
  PROVE  Fits(ManualTurn(w), {}) /\ Orderly(MA, ManualTurn(w))
<1> DEFINE turn == ManualTurn(w)
<1>1. RestartEngine \in Ops /\ CancelThrusters \in Ops /\ CreateThrusters \in Ops
  BY OpsFacts
<1>2. w \in {"engine", "thrusters", "both"}
  BY WorkAssumption
<1> DEFINE Works == {RestartEngine, CancelThrusters, CreateThrusters}
           a == IF w \in {"engine", "both"} THEN <<RestartEngine>> ELSE <<>>
           b == IF w \in {"thrusters", "both"} THEN <<CancelThrusters, CreateThrusters>> ELSE <<>>
<1>3. turn = a \o b
  BY DEF ManualTurn
<1>a. a \in Seq(Works) /\ b \in Seq(Works) /\ Len(a) + Len(b) > 0
  <2>1. <<RestartEngine>> \in Seq(Works) /\ <<CancelThrusters, CreateThrusters>> \in Seq(Works)
    OBVIOUS
  <2>2. <<>> \in Seq(Works) /\ Len(<<>>) = 0
    BY EmptySeq
  <2>3. Len(<<RestartEngine>>) = 1 /\ Len(<<CancelThrusters, CreateThrusters>>) = 2
    OBVIOUS
  <2>4. /\ a \in {<<>>, <<RestartEngine>>} /\ b \in {<<>>, <<CancelThrusters, CreateThrusters>>}
        /\ a = <<RestartEngine>> \/ b = <<CancelThrusters, CreateThrusters>>
    BY <1>2
  <2> HIDE DEF a, b, Works
  <2>5. a \in Seq(Works) /\ b \in Seq(Works)
    BY <2>1, <2>2, <2>4
  <2>6. Len(a) \in Nat /\ Len(b) \in Nat /\ (Len(a) > 0 \/ Len(b) > 0)
    <3>1. Len(a) \in Nat /\ Len(b) \in Nat
      BY <2>5
    <3>2. Len(a) = 1 \/ Len(b) = 2
      BY <2>3, <2>4
    <3> QED
      BY <3>1, <3>2
  <2> QED
    BY <2>5, <2>6
<1> HIDE DEF turn, a, b
<1>4. /\ turn \in Seq(Ops) /\ Len(turn) > 0
      /\ \A i \in 1..Len(turn) : turn[i] \in {RestartEngine, CancelThrusters, CreateThrusters}
  <2>1. turn \in Seq(Works) /\ Len(turn) = Len(a) + Len(b)
    BY <1>3, <1>a, ConcatProperties
  <2>2. turn \in Seq(Ops)
    <3>1. Works \subseteq Ops
      BY <1>1
    <3> QED
      BY <2>1, <3>1
  <2> QED
    BY <1>a, <2>1, <2>2
<1>5. \A i \in 1..Len(turn) : turn[i][1] \notin {"wait", "post"}
  BY <1>4, OpNames
<1>6. Fits(turn, {}) /\ Orderly(MA, turn)
  BY <1>4, <1>5, IdleFits
<1> QED
  BY <1>6 DEF turn

\* The semaphores a thread may hold.
Mine(t) ==
  IF t \in SignalGyros THEN {Action, Copy(t)}
  ELSE IF t \in GyroThreads THEN {Copy(t)}
  ELSE IF t \in Engines \cup {RL} THEN DistActionGs
  ELSE IF t = LC THEN AllGs
  ELSE {}

\* Every branch of every thread.
LEMMA TurnsFit ==
  ASSUME NEW t \in Threads, NEW turn \in Turns[t]
  PROVE  Fits(turn, Mine(t)) /\ Orderly(t, turn)
<1>0. Turns[t] = TurnsOf(t)
  BY DEF Turns
<1>1. CASE t \in SignalGyros
  <2>1. TurnsOf(t) = SignalGyroTurns(t) /\ Mine(t) = {Action, Copy(t)}
    BY <1>1, Classes DEF TurnsOf, Mine
  <2> QED
    BY <1>0, <1>1, <2>1, SignalGyroFits
<1>2. CASE t \in GyroThreads
  <2>1. t \notin SignalGyros
    BY <1>2, Classes
  <2>2. TurnsOf(t) = {CorrectTurn(t), LevelTurn(t)} /\ Mine(t) = {Copy(t)}
    BY <1>2, <2>1, Classes DEF TurnsOf, Mine
  <2> QED
    BY <1>0, <1>2, <2>2, GyroThreadFits
<1>3. CASE t \in Engines
  <2>1. t \notin SignalGyros /\ t \notin GyroThreads
    BY <1>3, Classes
  <2>2. TurnsOf(t) = {EngineTurn} /\ Mine(t) = DistActionGs
    BY <1>3, <2>1, Classes DEF TurnsOf, Mine
  <2> QED
    BY <1>0, <1>3, <2>2, EngineFits
<1>a. /\ RL \notin SignalGyros \cup GyroThreads \cup Engines
      /\ LC \notin SignalGyros \cup GyroThreads \cup Engines
      /\ MA \notin SignalGyros \cup GyroThreads \cup Engines
      /\ GU \notin SignalGyros \cup GyroThreads \cup Engines
      /\ RL # LC /\ RL # MA /\ RL # GU /\ LC # MA /\ LC # GU /\ MA # GU
  BY Classes
<1>4. CASE t = RL
  <2>1. TurnsOf(t) = {RestartTurn, NoRestartTurn} /\ Mine(t) = DistActionGs
    BY <1>4, <1>a DEF TurnsOf, Mine
  <2> QED
    BY <1>0, <1>4, <2>1, RestartFits, NoRestartFits
<1>5. CASE t = LC
  <2>1. TurnsOf(t) = {LandingTurn, CutTurn} /\ Mine(t) = AllGs
    BY <1>5, <1>a DEF TurnsOf, Mine
  <2> QED
    BY <1>0, <1>5, <2>1, LandingFits, CutFits
<1>6. CASE t = MA
  <2>1. TurnsOf(t) = {ManualTurn(w) : w \in AlarmWork} /\ Mine(t) = {}
    BY <1>6, <1>a DEF TurnsOf, Mine
  <2> QED
    BY <1>0, <1>6, <2>1, ManualFits
<1>7. CASE t = GU
  <2>1. TurnsOf(t) = {ClimbTurn, TopTurn} /\ Mine(t) = {}
    BY <1>7, <1>a DEF TurnsOf, Mine
  <2> QED
    BY <1>0, <1>7, <2>1, ClimbFits
<1> QED
  BY <1>1, <1>2, <1>3, <1>4, <1>5, <1>6, <1>7 DEF Threads


LEMMA MineFacts ==
  /\ \A u : \A s \in Mine(u) : s \in Shared \/ s = Copy(u)
  /\ \A t, u : Copy(t) \in Mine(u) => t = u /\ u \in SignalGyros \cup GyroThreads
  /\ \A u : Gas \notin Mine(u)
  /\ \A u \in GyroThreads : Mine(u) = {Copy(u)}
  /\ \A u : Dist \in Mine(u) => u \in Engines \cup {RL}
  /\ Mine(LC) = AllGs
<1>1. /\ Dist \in Shared /\ Action \in Shared /\ AllGs \subseteq Shared /\ DistActionGs \subseteq Shared
      /\ Gas \notin DistActionGs /\ Gas \notin AllGs /\ Dist \notin AllGs
      /\ \A t : Copy(t) \notin DistActionGs /\ Copy(t) \notin AllGs
  <2>1. /\ Gas \notin AllGs /\ Dist \notin AllGs /\ \A t : Copy(t) \notin AllGs
    BY SemaphoreNames DEF AllGs
  <2>2. Gas \notin DistActionGs /\ \A t : Copy(t) \notin DistActionGs
    BY <2>1, SemaphoreNames DEF DistActionGs
  <2> QED
    BY <2>1, <2>2, SharedNames DEF DistActionGs
<1>2. \A t, u : /\ Copy(t) # Dist /\ Copy(t) # Action /\ Copy(u) # Gas /\ (Copy(t) = Copy(u) => t = u)
                /\ Copy(u) # Dist
  BY SemaphoreNames
<1>3. Action # Gas /\ Action # Dist
  BY SemaphoreNames
<1>4. \A u : Mine(u) \in {{Action, Copy(u)}, {Copy(u)}, DistActionGs, AllGs, {}}
  BY DEF Mine
<1>5. \A u : Dist \in Mine(u) => u \in Engines \cup {RL}
  BY <1>1, <1>2, <1>3 DEF Mine
<1>6. \A t, u : Copy(t) \in Mine(u) => t = u /\ u \in SignalGyros \cup GyroThreads
  BY <1>1, <1>2 DEF Mine
<1>7. \A u : Gas \notin Mine(u)
  BY <1>1, <1>2, <1>3, <1>4
<1>8. \A u : \A s \in Mine(u) : s \in Shared \/ s = Copy(u)
  BY <1>1, <1>4
<1>9. \A u \in GyroThreads : Mine(u) = {Copy(u)}
  BY Classes DEF Mine
<1>10. Mine(LC) = AllGs
  BY Classes DEF Mine
<1> QED
  BY <1>5, <1>6, <1>7, <1>8, <1>9, <1>10

LEMMA OpKinds ==
  /\ \A op \in Ops : op[1] = "wait" => \E s \in Semaphores : op = Wait(s)
  /\ \A op \in Ops : op[1] = "post" => \E S \in SUBSET Semaphores : op = Post(S)
<1>1. \A s : Wait(s)[1] = "wait" /\ Use(s)[1] = "use" /\ Post(s)[1] = "post"
  BY OpNames
<1>2. \A op \in {CancelThrusters, CreateThrusters, RestartEngine, WakeClimb, WakeGyro, Pause} :
        op[1] \notin {"wait", "post"}
  BY OpNames
<1> QED
  BY <1>1, <1>2 DEF Ops

-----------------------------------------------------------------------------
(* The inductive invariant.                                                *)

LockTypes ==
  /\ status \in [Threads -> {"unborn", "start", "run", "asleep", "dead"}]
  /\ DOMAIN script = Threads
  /\ cancelled \subseteq GyroThreads \cup Engines
  /\ sem \in [Semaphores -> 0..1]
  /\ held \in [Threads -> SUBSET Semaphores]
  /\ arg \in [Gyros -> 0..1]
  /\ engine \in Engines
  /\ gyro \in [Gyros -> GyroThreads]
  /\ \A t \in Threads : status[t] = "dead" => t \in GyroThreads \cup Engines

\* In the middle of a turn a thread holds what the turn has taken so far.
Placed(t) ==
  \/ script[t] = <<>> /\ held[t] = {}
  \/ \E full \in Turns[t] : \E i \in 2..Len(full) :
       script[t] = SubSeq(full, i, Len(full)) /\ held[t] = HeldAt(full, i)

Places(t) ==
  /\ held[t] \subseteq Mine(t)
  /\ status[t] \in {"run", "asleep"} => Placed(t)
  /\ status[t] \notin {"run", "asleep"} => script[t] = <<>>
  /\ status[t] \in {"unborn", "start"} => held[t] = {}
  /\ status[t] = "dead" /\ t \notin Engines => held[t] = {}

\* What a thread holds is taken, what is taken of the shared semaphores some
\* thread holds, and no two threads hold the same one.
Keeping ==
  /\ \A t \in Threads : \A s \in held[t] : sem[s] = 0
  /\ \A s \in Shared : sem[s] = 0 => \E t \in Threads : s \in held[t]
  /\ \A t, u \in Threads : held[t] \cap held[u] \cap Shared # {} => t = u

LockInv == LockTypes /\ (\A t \in Threads : Places(t)) /\ Keeping

\* What t may go on with is its turn full from the i-th operation.
StandsAt(t, turn, full, i) ==
  /\ Head(turn) = full[i] /\ Tail(turn) = SubSeq(full, i + 1, Len(full))
  /\ held[t] = HeldAt(full, i) /\ full[i] \in Ops
  /\ IF script[t] = <<>> THEN held[t] = {} ELSE turn = script[t]

LEMMA Position ==
  ASSUME LockInv, NEW t \in Threads, status[t] \in {"run", "asleep"}, NEW turn \in Todo(t)
  PROVE  \E full \in Turns[t] : \E i \in 1..Len(full) : StandsAt(t, turn, full, i)
<1>1. Placed(t)
  BY DEF LockInv, Places
<1>2. \A full \in Turns[t] : full \in Seq(Ops) /\ Len(full) > 0 /\ Len(full) \in Nat
  BY TurnsFit DEF Fits
<1>3. CASE script[t] = <<>> /\ held[t] = {}
  <2>1. turn \in Turns[t]
    BY <1>3 DEF Todo
  <2>2. turn \in Seq(Ops) /\ Len(turn) > 0 /\ Len(turn) \in Nat
    BY <1>2, <2>1
  <2>3. turn = SubSeq(turn, 1, Len(turn))
    BY <2>2, SubSeqFull
  <2>4. 1 \in 1..Len(turn) /\ Len(turn) \in 1..Len(turn) /\ 1 + 1 = 2
    BY <2>2
  <2>5. Head(turn) = turn[1] /\ turn[1] \in Ops
    BY <2>2, <2>4
  <2>6. Tail(turn) = SubSeq(turn, 2, Len(turn))
    <3>1. turn # <<>>
      BY <2>2, EmptySeq
    <3> QED
      BY <2>2, <3>1, TailIsSubSeq
  <2>7. held[t] = HeldAt(turn, 1)
    BY <1>3, HeldFirst
  <2> QED
    BY <1>3, <2>1, <2>4, <2>5, <2>6, <2>7 DEF StandsAt
<1>4. ASSUME NEW full \in Turns[t], NEW i \in 2..Len(full),
             script[t] = SubSeq(full, i, Len(full)), held[t] = HeldAt(full, i)
      PROVE  \E f \in Turns[t] : \E j \in 1..Len(f) : StandsAt(t, turn, f, j)
  <2>1. full \in Seq(Ops) /\ Len(full) \in Nat
    BY <1>2
  <2>2. i \in 1..Len(full) /\ Len(full) \in i..Len(full)
    BY <2>1
  <2>3. /\ Head(SubSeq(full, i, Len(full))) = full[i]
        /\ Tail(SubSeq(full, i, Len(full))) = SubSeq(full, i + 1, Len(full))
    BY <2>1, <2>2, HeadTailOfSubSeq
  <2>4. SubSeq(full, i, Len(full)) # <<>>
    <3>a. \A j \in i..Len(full) : j \in 1..Len(full)
      BY <2>1
    <3>b. \A j \in 1..Len(full) : full[j] \in Ops
      BY <2>1, ElementOfSeq
    <3>1. \A j \in i..Len(full) : full[j] \in Ops
      BY <3>a, <3>b
    <3>2. i \in Int /\ Len(full) \in Int /\ i <= Len(full)
      BY <2>1
    <3>3. Len(SubSeq(full, i, Len(full))) = Len(full) - i + 1
      BY <3>1, <3>2, SubSeqProperties
    <3>4. Len(SubSeq(full, i, Len(full))) # 0
      BY <3>2, <3>3
    <3>5. Len(<<>>) = 0
      BY EmptySeq
    <3> QED
      BY <3>4, <3>5
  <2>5. turn = script[t]
    BY <1>4, <2>4 DEF Todo
  <2>6. full[i] \in Ops
    BY <2>1, <2>2
  <2> QED
    BY <1>4, <2>2, <2>3, <2>4, <2>5, <2>6 DEF StandsAt
<1> QED
  BY <1>1, <1>3, <1>4 DEF Placed

\* It stands in the next place when it has held what the turn says there.
LEMMA Advanced ==
  ASSUME NEW t \in Threads, NEW full \in Turns[t], NEW i \in 1..Len(full),
         script'[t] = SubSeq(full, i + 1, Len(full)), held'[t] = HeldAt(full, i + 1)
  PROVE  Placed(t)' /\ held'[t] \subseteq Mine(t)
<1>1. /\ full \in Seq(Ops) /\ Len(full) \in Nat
      /\ \A j \in 1..Len(full) : HeldAt(full, j) \subseteq Mine(t)
      /\ HeldAt(full, Len(full) + 1) = {}
  BY TurnsFit DEF Fits
<1>2. CASE i = Len(full)
  <2>1. script'[t] = <<>>
    <3>1. i + 1 \in Int /\ Len(full) \in Int /\ Len(full) < i + 1
      BY <1>1, <1>2
    <3> QED
      BY <3>1, SubSeqEmpty
  <2>2. held'[t] = {}
    BY <1>1, <1>2
  <2> QED
    BY <2>1, <2>2 DEF Placed
<1>3. CASE i # Len(full)
  <2>1. i + 1 \in 2..Len(full) /\ i + 1 \in 1..Len(full)
    BY <1>1, <1>3
  <2>2. held'[t] \subseteq Mine(t)
    BY <1>1, <2>1
  <2>3. Placed(t)'
    BY <2>1 DEF Placed
  <2> QED
    BY <2>2, <2>3
<1> QED
  BY <1>2, <1>3


-----------------------------------------------------------------------------
(* Each action preserves the invariant.                                    *)

Statuses == {"unborn", "start", "run", "asleep", "dead"}

\* A thread that only wakes, sleeps or is created keeps its place.
LEMMA Kept ==
  ASSUME NEW u \in Threads, Places(u), script'[u] = script[u], held'[u] = held[u],
         \/ status'[u] = status[u]
         \/ status[u] \in {"run", "asleep"} /\ status'[u] \in {"run", "asleep"}
         \/ script[u] = <<>> /\ held[u] = {} /\ status'[u] \in {"run", "asleep", "start"}
  PROVE  Places(u)'
<1>1. CASE status'[u] = status[u]
  BY <1>1 DEF Places, Placed
<1>2. CASE status[u] \in {"run", "asleep"} /\ status'[u] \in {"run", "asleep"}
  BY <1>2 DEF Places, Placed
<1>3. CASE script[u] = <<>> /\ held[u] = {} /\ status'[u] \in {"run", "asleep", "start"}
  BY <1>3 DEF Places, Placed
<1> QED
  BY <1>1, <1>2, <1>3

\* The steps that neither take nor post a semaphore for longer than a step.
LEMMA Quiet ==
  ASSUME LockInv, NEW t \in Threads, NEW turn \in Todo(t),
         status[t] = "run", Head(turn)[1] \notin {"wait", "post"}, Advance(t, turn),
         UNCHANGED <<sem, held>>, status' \in [Threads -> Statuses],
         \A u \in Threads :
           \/ status'[u] = status[u]
           \/ status[u] \in {"run", "asleep"} /\ status'[u] \in {"run", "asleep"}
           \/ u # t /\ script[u] = <<>> /\ held[u] = {} /\ status'[u] \in {"run", "start"},
         cancelled' \subseteq GyroThreads \cup Engines, arg' \in [Gyros -> 0..1],
         engine' \in Engines, gyro' \in [Gyros -> GyroThreads]
  PROVE  LockInv'
<1>1. LockTypes'
  <2>1. DOMAIN script' = Threads
    BY DEF LockInv, LockTypes, Advance
  <2>2. sem' \in [Semaphores -> 0..1] /\ held' \in [Threads -> SUBSET Semaphores]
    BY DEF LockInv, LockTypes
  <2>3. \A u \in Threads : status'[u] = "dead" => u \in GyroThreads \cup Engines
    <3> SUFFICES ASSUME NEW u \in Threads, status'[u] = "dead" PROVE status[u] = "dead"
      BY DEF LockInv, LockTypes
    <3> QED
      OBVIOUS
  <2> QED
    BY <2>1, <2>2, <2>3 DEF LockTypes, Statuses
<1>2. ASSUME NEW u \in Threads PROVE Places(u)'
  <2>1. Places(u)
    BY DEF LockInv
  <2>2. CASE u # t
    <3>1. script'[u] = script[u] /\ held'[u] = held[u]
      BY <2>2 DEF LockInv, LockTypes, Advance
    <3>2. \/ status'[u] = status[u]
          \/ status[u] \in {"run", "asleep"} /\ status'[u] \in {"run", "asleep"}
          \/ script[u] = <<>> /\ held[u] = {} /\ status'[u] \in {"run", "asleep", "start"}
      OBVIOUS
    <3> QED
      BY <2>1, <3>1, <3>2, Kept
  <2>3. CASE u = t
    <3>1. PICK full \in Turns[t] : \E i \in 1..Len(full) : StandsAt(t, turn, full, i)
      BY Position
    <3>a. PICK i \in 1..Len(full) : StandsAt(t, turn, full, i)
      BY <3>1
    <3>2. /\ Head(turn) = full[i] /\ Tail(turn) = SubSeq(full, i + 1, Len(full))
          /\ held[t] = HeldAt(full, i)
      BY <3>a DEF StandsAt
    <3>3. script'[t] = SubSeq(full, i + 1, Len(full))
      BY <3>2 DEF LockInv, LockTypes, Advance
    <3>4. i \in Nat \ {0}
      OBVIOUS
    <3>5. held'[t] = HeldAt(full, i + 1)
      <4>1. full[i][1] \notin {"wait", "post"}
        BY <3>2
      <4>2. HeldAt(full, i + 1) = HeldAt(full, i)
        BY <3>4, <4>1, HeldStep
      <4> QED
        BY <3>2, <4>2
    <3>6. Placed(t)' /\ held'[t] \subseteq Mine(t)
      BY <3>3, <3>5, Advanced
    <3>7. status'[t] \in {"run", "asleep"}
      OBVIOUS
    <3> QED
      BY <2>3, <3>6, <3>7 DEF Places
  <2> QED
    BY <2>2, <2>3
<1>3. Keeping'
  BY DEF LockInv, Keeping
<1> QED
  BY <1>1, <1>2, <1>3 DEF LockInv

LEMMA StartStep ==
  ASSUME LockInv, NEW t \in SignalGyros \cup GyroThreads, Start(t)
  PROVE  LockInv'
<1>a. t \in Threads /\ Copy(t) \in Semaphores /\ Copy(t) \notin Shared
  BY SharedNames DEF Threads, Semaphores
<1>b. t[2] \in Gyros
  <2>1. \A i \in Gyros : SG(i)[2] = i
    BY DEF SG
  <2>2. \A i \in Gyros, k \in 1..GyroLives : GT(i, k)[2] = i
    BY DEF GT
  <2> QED
    BY <2>1, <2>2 DEF SignalGyros, GyroThreads
<1>c. held[t] = {} /\ script[t] = <<>>
  BY <1>a DEF LockInv, Places, Start
<1>1. LockTypes'
  <2>1. sem' \in [Semaphores -> 0..1]
    BY <1>a, <1>b DEF LockInv, LockTypes, Start
  <2>2. status' \in [Threads -> {"unborn", "start", "run", "asleep", "dead"}]
    BY DEF LockInv, LockTypes, Start
  <2>3. \A u \in Threads : status'[u] = "dead" => u \in GyroThreads \cup Engines
    BY DEF LockInv, LockTypes, Start
  <2> QED
    BY <2>1, <2>2, <2>3 DEF LockInv, LockTypes, Start, lifeVars
<1>2. ASSUME NEW u \in Threads PROVE Places(u)'
  <2>1. Places(u) /\ script'[u] = script[u] /\ held'[u] = held[u]
    BY DEF LockInv, Start
  <2>2. status'[u] = status[u] \/ (u = t /\ status'[u] \in {"run", "asleep"})
    BY <1>a DEF LockInv, LockTypes, Start
  <2> QED
    BY <1>c, <2>1, <2>2, Kept
<1>3. Keeping'
  <2>1. ASSUME NEW u \in Threads, NEW s \in held[u] PROVE s # Copy(t)
    <3>1. s \in Mine(u)
      BY DEF LockInv, Places
    <3> QED
      BY <1>c, <3>1, MineFacts
  <2>2. \A s \in Semaphores : s # Copy(t) => sem'[s] = sem[s]
    BY DEF LockInv, LockTypes, Start
  <2>3. held' = held
    BY DEF Start
  <2>4. \A u \in Threads : held[u] \subseteq Semaphores
    BY DEF LockInv, LockTypes
  <2>5. \A s \in Shared : s \in Semaphores /\ s # Copy(t)
    BY <1>a DEF Semaphores
  <2> QED
    BY <2>1, <2>2, <2>3, <2>4, <2>5 DEF LockInv, Keeping
<1> QED
  BY <1>1, <1>2, <1>3 DEF LockInv

LEMMA WaitStep ==
  ASSUME LockInv, NEW t \in Threads, NEW turn \in Todo(t), sem_wait(t, turn)
  PROVE  LockInv'
<1> DEFINE s == Head(turn)[2]
<1>1. status[t] = "run" /\ Head(turn)[1] = "wait"
  BY DEF sem_wait, Runs
<1>p. PICK full \in Turns[t] : \E i \in 1..Len(full) : StandsAt(t, turn, full, i)
  BY <1>1, Position
<1>q. PICK i \in 1..Len(full) : StandsAt(t, turn, full, i)
  BY <1>p
<1>2. /\ Head(turn) = full[i] /\ Tail(turn) = SubSeq(full, i + 1, Len(full))
      /\ held[t] = HeldAt(full, i) /\ full[i] \in Ops
  BY <1>q DEF StandsAt
<1>3. full[i] = Wait(s) /\ s \in Semaphores
  <2>1. PICK x \in Semaphores : full[i] = Wait(x)
    BY <1>1, <1>2, OpKinds
  <2>2. full[i][2] = x
    BY <2>1, OpNames
  <2> QED
    BY <1>2, <2>1, <2>2
<1>4. /\ sem[s] > 0 /\ sem' = [sem EXCEPT ![s] = @ - 1]
      /\ held' = [held EXCEPT ![t] = @ \cup {s}]
      /\ script' = [script EXCEPT ![t] = Tail(turn)]
      /\ UNCHANGED <<status, cancelled, arg, engine, gyro>>
  BY DEF sem_wait, Advance, lifeVars
<1> HIDE DEF s
<1>5. sem[s] = 1 /\ sem'[s] = 0 /\ \A x \in Semaphores : x # s => sem'[x] = sem[x]
  BY <1>3, <1>4 DEF LockInv, LockTypes
<1>6. held'[t] = held[t] \cup {s} /\ \A u \in Threads : u # t => held'[u] = held[u]
  BY <1>4 DEF LockInv, LockTypes
<1>7. script'[t] = Tail(turn) /\ \A u \in Threads : u # t => script'[u] = script[u]
  BY <1>4 DEF LockInv, LockTypes
<1>8. LockTypes'
  <2>1. sem' \in [Semaphores -> 0..1]
    BY <1>4, <1>5 DEF LockInv, LockTypes
  <2>2. held' \in [Threads -> SUBSET Semaphores]
    BY <1>3, <1>4 DEF LockInv, LockTypes
  <2>3. DOMAIN script' = Threads
    BY <1>4 DEF LockInv, LockTypes
  <2> QED
    BY <1>4, <2>1, <2>2, <2>3 DEF LockInv, LockTypes
<1>9. Placed(t)' /\ held'[t] \subseteq Mine(t)
  <2>1. i \in Nat \ {0}
    OBVIOUS
  <2>2. held'[t] = HeldAt(full, i + 1)
    BY <1>2, <1>3, <1>6, <2>1, HeldStep
  <2>3. script'[t] = SubSeq(full, i + 1, Len(full))
    BY <1>2, <1>7
  <2> QED
    BY <2>2, <2>3, Advanced
<1>10. ASSUME NEW u \in Threads PROVE Places(u)'
  <2>1. CASE u = t
    BY <1>1, <1>4, <1>9, <2>1 DEF Places
  <2>2. CASE u # t
    <3>1. Places(u) /\ status'[u] = status[u]
      BY <1>4 DEF LockInv
    <3> QED
      BY <1>6, <1>7, <2>2, <3>1, Kept
  <2> QED
    BY <2>1, <2>2
<1>11. Keeping'
  <2>1. ASSUME NEW u \in Threads PROVE s \notin held[u]
    BY <1>5 DEF LockInv, Keeping
  <2>2. \A u \in Threads : held[u] \subseteq Semaphores
    BY DEF LockInv, LockTypes
  <2>3. ASSUME NEW u \in Threads, NEW x \in held'[u] PROVE sem'[x] = 0
    <3>1. x = s \/ x \in held[u]
      BY <1>6
    <3> QED
      BY <1>5, <2>1, <2>2, <3>1 DEF LockInv, Keeping
  <2>4. ASSUME NEW x \in Shared, sem'[x] = 0 PROVE \E u \in Threads : x \in held'[u]
    <3>1. CASE x = s
      BY <1>6, <3>1
    <3>2. CASE x # s
      <4>1. sem[x] = 0
        BY <1>5, <2>4, <3>2 DEF Semaphores
      <4>2. PICK u \in Threads : x \in held[u]
        BY <4>1 DEF LockInv, Keeping
      <4> QED
        BY <1>6, <4>2
    <3> QED
      BY <3>1, <3>2
  <2>5. ASSUME NEW u \in Threads, NEW v \in Threads, NEW x \in Shared, x \in held'[u], x \in held'[v]
        PROVE  u = v
    <3>1. CASE x = s
      BY <1>6, <2>1, <2>5, <3>1
    <3>2. CASE x # s
      <4>1. x \in held[u] /\ x \in held[v]
        BY <1>6, <2>5, <3>2
      <4> QED
        BY <4>1 DEF LockInv, Keeping
    <3> QED
      BY <3>1, <3>2
  <2> QED
    BY <2>3, <2>4, <2>5 DEF Keeping
<1> QED
  BY <1>8, <1>10, <1>11 DEF LockInv

LEMMA PostStep ==
  ASSUME LockInv, NEW t \in Threads, NEW turn \in Todo(t), sem_post(t, turn)
  PROVE  LockInv'
<1> DEFINE S == Head(turn)[2]
<1>1. status[t] = "run" /\ Head(turn)[1] = "post"
  BY DEF sem_post, Runs
<1>p. PICK full \in Turns[t] : \E i \in 1..Len(full) : StandsAt(t, turn, full, i)
  BY <1>1, Position
<1>q. PICK i \in 1..Len(full) : StandsAt(t, turn, full, i)
  BY <1>p
<1>2. /\ Head(turn) = full[i] /\ Tail(turn) = SubSeq(full, i + 1, Len(full))
      /\ held[t] = HeldAt(full, i) /\ full[i] \in Ops
  BY <1>q DEF StandsAt
<1>3. full[i] = Post(S)
  <2>1. PICK X \in SUBSET Semaphores : full[i] = Post(X)
    BY <1>1, <1>2, OpKinds
  <2>2. full[i][2] = X
    BY <2>1, OpNames
  <2> QED
    BY <1>2, <2>1, <2>2
<1>a. S \subseteq held[t]
  <2>1. full[i][1] = "post" /\ full[i][2] = S
    BY <1>3, OpNames
  <2> QED
    BY <1>2, <2>1, TurnsFit DEF Fits
<1>4. /\ sem' = [x \in DOMAIN sem |-> IF x \in S THEN sem[x] + 1 ELSE sem[x]]
      /\ held' = [held EXCEPT ![t] = @ \ S]
      /\ script' = [script EXCEPT ![t] = Tail(turn)]
      /\ UNCHANGED <<status, cancelled, arg, engine, gyro>>
  BY DEF sem_post, Advance, lifeVars
<1> HIDE DEF S
<1>b. DOMAIN sem = Semaphores /\ held[t] \subseteq Semaphores
  BY DEF LockInv, LockTypes
<1>5. /\ \A x \in S : x \in Semaphores /\ sem[x] = 0 /\ sem'[x] = 1
      /\ \A x \in Semaphores : x \notin S => sem'[x] = sem[x]
  <2>1. \A x \in S : x \in Semaphores /\ sem[x] = 0
    BY <1>a, <1>b DEF LockInv, Keeping
  <2> QED
    BY <1>4, <1>b, <2>1
<1>6. held'[t] = held[t] \ S /\ \A u \in Threads : u # t => held'[u] = held[u]
  BY <1>4 DEF LockInv, LockTypes
<1>7. script'[t] = Tail(turn) /\ \A u \in Threads : u # t => script'[u] = script[u]
  BY <1>4 DEF LockInv, LockTypes
<1>8. LockTypes'
  <2>1. sem' \in [Semaphores -> 0..1]
    <3>1. \A x \in Semaphores : sem'[x] \in 0..1
      BY <1>5 DEF LockInv, LockTypes
    <3> QED
      BY <1>4, <1>b, <3>1
  <2>2. held' \in [Threads -> SUBSET Semaphores]
    BY <1>4 DEF LockInv, LockTypes
  <2>3. DOMAIN script' = Threads
    BY <1>4 DEF LockInv, LockTypes
  <2> QED
    BY <1>4, <2>1, <2>2, <2>3 DEF LockInv, LockTypes
<1>9. Placed(t)' /\ held'[t] \subseteq Mine(t)
  <2>1. i \in Nat \ {0}
    OBVIOUS
  <2>2. held'[t] = HeldAt(full, i + 1)
    BY <1>2, <1>3, <1>6, <2>1, HeldStep
  <2>3. script'[t] = SubSeq(full, i + 1, Len(full))
    BY <1>2, <1>7
  <2> QED
    BY <2>2, <2>3, Advanced
<1>10. ASSUME NEW u \in Threads PROVE Places(u)'
  <2>1. CASE u = t
    BY <1>1, <1>4, <1>9, <2>1 DEF Places
  <2>2. CASE u # t
    <3>1. Places(u) /\ status'[u] = status[u]
      BY <1>4 DEF LockInv
    <3> QED
      BY <1>6, <1>7, <2>2, <3>1, Kept
  <2> QED
    BY <2>1, <2>2
<1>11. Keeping'
  <2>1. \A u \in Threads : held'[u] \subseteq held[u] /\ held[u] \subseteq Semaphores
    BY <1>6 DEF LockInv, LockTypes
  <2>2. ASSUME NEW u \in Threads, NEW x \in held'[u] PROVE x \notin S
    <3>1. CASE u = t
      BY <1>6, <2>2, <3>1
    <3>2. CASE u # t
      <4> SUFFICES ASSUME x \in S PROVE FALSE
        OBVIOUS
      <4>2. x \in held[u] /\ x \in held[t]
        BY <1>a, <2>1, <2>2
      <4>3. x \in Shared
        <5>1. x \in Mine(u) /\ x \in Mine(t)
          BY <4>2 DEF LockInv, Places
        <5>2. x \in Shared \/ (x = Copy(u) /\ x = Copy(t))
          BY <5>1, MineFacts
        <5> QED
          BY <3>2, <5>2, SemaphoreNames
      <4> QED
        BY <3>2, <4>2, <4>3 DEF LockInv, Keeping
    <3> QED
      BY <3>1, <3>2
  <2>3. ASSUME NEW u \in Threads, NEW x \in held'[u] PROVE sem'[x] = 0
    <3>1. x \in held[u] /\ x \in Semaphores /\ x \notin S
      BY <2>1, <2>2
    <3>2. sem[x] = 0
      BY <3>1 DEF LockInv, Keeping
    <3> QED
      BY <1>5, <3>1, <3>2
  <2>4. ASSUME NEW x \in Shared, sem'[x] = 0 PROVE \E u \in Threads : x \in held'[u]
    <3>1. x \in Semaphores
      BY DEF Semaphores
    <3>2. x \notin S /\ sem[x] = 0
      BY <1>5, <2>4, <3>1
    <3>3. PICK u \in Threads : x \in held[u]
      BY <3>2 DEF LockInv, Keeping
    <3>4. x \in held'[u]
      BY <1>6, <3>2, <3>3
    <3> QED
      BY <3>4
  <2>5. ASSUME NEW u \in Threads, NEW v \in Threads, NEW x \in Shared, x \in held'[u], x \in held'[v]
        PROVE  u = v
    BY <2>1, <2>5 DEF LockInv, Keeping
  <2> QED
    BY <2>3, <2>4, <2>5 DEF Keeping
<1> QED
  BY <1>8, <1>10, <1>11 DEF LockInv

LEMMA UseStep ==
  ASSUME LockInv, NEW t \in Threads, NEW turn \in Todo(t), UseSem(t, turn)
  PROVE  LockInv'
<1>1. status[t] = "run" /\ Head(turn)[1] \notin {"wait", "post"} /\ Advance(t, turn)
  BY DEF UseSem, Runs
<1>2. UNCHANGED <<status, sem, held, cancelled, arg, engine, gyro>>
  BY DEF UseSem, lifeVars
<1>3. /\ status' \in [Threads -> Statuses] /\ cancelled' \subseteq GyroThreads \cup Engines
      /\ arg' \in [Gyros -> 0..1] /\ engine' \in Engines /\ gyro' \in [Gyros -> GyroThreads]
  BY <1>2 DEF LockInv, LockTypes, Statuses
<1> QED
  BY <1>1, <1>2, <1>3, Quiet

LEMMA CancelThrustersStep ==
  ASSUME LockInv, NEW t \in Threads, NEW turn \in Todo(t), terminate_event_1(t, turn)
  PROVE  LockInv'
<1>1. status[t] = "run" /\ Head(turn)[1] \notin {"wait", "post"} /\ Advance(t, turn)
  BY DEF terminate_event_1, Runs
<1>2. UNCHANGED <<status, sem, held, arg, engine, gyro>>
  BY DEF terminate_event_1
<1>3. /\ status' \in [Threads -> Statuses]
      /\ arg' \in [Gyros -> 0..1] /\ engine' \in Engines /\ gyro' \in [Gyros -> GyroThreads]
  BY <1>2 DEF LockInv, LockTypes, Statuses
<1>4. cancelled' \subseteq GyroThreads \cup Engines
  <2>1. cancelled \subseteq GyroThreads \cup Engines /\ \A i \in Gyros : gyro[i] \in GyroThreads
    BY DEF LockInv, LockTypes
  <2>2. cancelled' = cancelled \cup {u \in {gyro[i] : i \in Gyros} : status[u] # "dead"}
    BY DEF terminate_event_1, pthread_cancel
  <2> QED
    BY <2>1, <2>2
<1> QED
  BY <1>1, <1>2, <1>3, <1>4, Quiet

LEMMA CreateStep ==
  ASSUME LockInv, NEW t \in Threads, NEW turn \in Todo(t), create_signals_gyros(t, turn)
  PROVE  LockInv'
<1> DEFINE Free(i) == {g \in {GT(i, k) : k \in 1..GyroLives} : status[g] \in {"unborn", "dead"}}
<1>1. status[t] = "run" /\ Head(turn)[1] \notin {"wait", "post"} /\ Advance(t, turn)
  BY DEF create_signals_gyros, Runs
<1>2. UNCHANGED <<sem, held, cancelled, engine>>
  BY DEF create_signals_gyros
<1>3. /\ \A i \in Gyros : Free(i) # {}
      /\ arg' = [i \in Gyros |-> sem[Gs(i)]]
      /\ gyro' = [i \in Gyros |-> CHOOSE g \in Free(i) : TRUE]
      /\ status' = [g \in Threads |-> IF \E i \in Gyros : g = gyro'[i] THEN "start" ELSE status[g]]
  BY DEF create_signals_gyros
<1>4. \A i \in Gyros : \A g \in Free(i) : g \in GyroThreads /\ status[g] \in {"unborn", "dead"}
  BY DEF GyroThreads
<1> HIDE DEF Free
<1>5. \A i \in Gyros : gyro'[i] \in Free(i)
  BY <1>3
<1>6. gyro' \in [Gyros -> GyroThreads]
  <2>1. \A i \in Gyros : gyro'[i] \in GyroThreads
    BY <1>4, <1>5
  <2> QED
    BY <1>3, <2>1
<1>7. arg' \in [Gyros -> 0..1]
  <2>1. \A i \in Gyros : sem[Gs(i)] \in 0..1
    BY SharedNames DEF LockInv, LockTypes, Semaphores
  <2> QED
    BY <1>3, <2>1
<1>8. ASSUME NEW u \in Threads
      PROVE  \/ status'[u] = status[u]
             \/ u # t /\ script[u] = <<>> /\ held[u] = {} /\ status'[u] \in {"run", "start"}
  <2>1. CASE \A i \in Gyros : u # gyro'[i]
    BY <1>3, <2>1
  <2>2. CASE \E i \in Gyros : u = gyro'[i]
    <3>1. u \in GyroThreads /\ status[u] \in {"unborn", "dead"} /\ status'[u] = "start"
      BY <1>3, <1>4, <1>5, <2>2
    <3>2. u # t /\ u \notin Engines
      BY <1>1, <3>1, Classes
    <3> QED
      BY <3>1, <3>2 DEF LockInv, Places
  <2> QED
    BY <2>1, <2>2
<1>9. /\ status' \in [Threads -> Statuses] /\ cancelled' \subseteq GyroThreads \cup Engines
      /\ engine' \in Engines
  BY <1>2, <1>3 DEF LockInv, LockTypes, Statuses
<1> QED
  BY <1>1, <1>2, <1>6, <1>7, <1>8, <1>9, Quiet

LEMMA RestartStep ==
  ASSUME LockInv, NEW t \in Threads, NEW turn \in Todo(t), manage_principal_engine(t, turn)
  PROVE  LockInv'
<1>1. status[t] = "run" /\ Head(turn)[1] \notin {"wait", "post"} /\ Advance(t, turn)
  BY DEF manage_principal_engine, Runs
<1>2. UNCHANGED <<sem, held, arg, gyro>>
  BY DEF manage_principal_engine
<1>3. PICK e \in Engines :
        status[e] = "unborn" /\ status' = [status EXCEPT ![e] = "run"] /\ engine' = e
  BY DEF manage_principal_engine
<1>4. cancelled' \subseteq GyroThreads \cup Engines
  BY DEF manage_principal_engine, pthread_cancel, LockInv, LockTypes
<1>5. e \in Threads /\ script[e] = <<>> /\ held[e] = {} /\ e # t
  <2>1. e \in Threads
    BY DEF Threads
  <2> QED
    BY <1>1, <1>3, <2>1 DEF LockInv, Places
<1>6. \A u \in Threads :
        \/ status'[u] = status[u]
        \/ u # t /\ script[u] = <<>> /\ held[u] = {} /\ status'[u] \in {"run", "start"}
  BY <1>3, <1>5 DEF LockInv, LockTypes
<1>7. /\ status' \in [Threads -> Statuses] /\ arg' \in [Gyros -> 0..1] /\ engine' \in Engines
      /\ gyro' \in [Gyros -> GyroThreads]
  BY <1>2, <1>3 DEF LockInv, LockTypes, Statuses
<1> QED
  BY <1>1, <1>2, <1>4, <1>6, <1>7, Quiet

LEMMA WakeStep ==
  ASSUME LockInv, NEW t \in Threads, NEW turn \in Todo(t), WakeSlave(t, turn)
  PROVE  LockInv'
<1>1. status[t] = "run" /\ Head(turn)[1] \notin {"wait", "post"} /\ Advance(t, turn)
  BY DEF WakeSlave, Runs
<1>2. UNCHANGED <<sem, held, cancelled, arg, engine, gyro>>
  BY DEF WakeSlave, lifeVars
<1>3. PICK g : status' = [status EXCEPT ![g] = IF @ = "asleep" THEN "run" ELSE @]
  BY DEF WakeSlave, Woken
<1>4. \A u \in Threads :
        \/ status'[u] = status[u]
        \/ status[u] \in {"run", "asleep"} /\ status'[u] \in {"run", "asleep"}
  BY <1>3 DEF LockInv, LockTypes
<1>5. status' \in [Threads -> Statuses]
  BY <1>3 DEF LockInv, LockTypes, Statuses
<1>6. /\ cancelled' \subseteq GyroThreads \cup Engines
      /\ arg' \in [Gyros -> 0..1] /\ engine' \in Engines /\ gyro' \in [Gyros -> GyroThreads]
  BY <1>2 DEF LockInv, LockTypes
<1> QED
  BY <1>1, <1>2, <1>4, <1>5, <1>6, Quiet

LEMMA PauseStep ==
  ASSUME LockInv, NEW t \in Threads, NEW turn \in Todo(t), pause(t, turn)
  PROVE  LockInv'
<1>1. status[t] = "run" /\ Head(turn)[1] \notin {"wait", "post"} /\ Advance(t, turn)
  BY DEF pause, Runs
<1>2. UNCHANGED <<sem, held, cancelled, arg, engine, gyro>>
  BY DEF pause, lifeVars
<1>3. status' = [status EXCEPT ![t] = "asleep"]
  BY DEF pause
<1>4. \A u \in Threads :
        \/ status'[u] = status[u]
        \/ status[u] \in {"run", "asleep"} /\ status'[u] \in {"run", "asleep"}
  BY <1>1, <1>3 DEF LockInv, LockTypes
<1>5. status' \in [Threads -> Statuses]
  BY <1>3 DEF LockInv, LockTypes, Statuses
<1>6. /\ cancelled' \subseteq GyroThreads \cup Engines
      /\ arg' \in [Gyros -> 0..1] /\ engine' \in Engines /\ gyro' \in [Gyros -> GyroThreads]
  BY <1>2 DEF LockInv, LockTypes
<1> QED
  BY <1>1, <1>2, <1>4, <1>5, <1>6, Quiet

LEMMA CancelledStep ==
  ASSUME LockInv, NEW t \in Threads, Cancelled(t)
  PROVE  LockInv'
<1>1. /\ status' = [status EXCEPT ![t] = "dead"]
      /\ cancelled' = cancelled \ {t}
      /\ script' = [script EXCEPT ![t] = <<>>]
      /\ sem' = [x \in DOMAIN sem |-> IF x = Copy(t) THEN 0 ELSE sem[x]]
      /\ held' = [held EXCEPT ![t] = @ \ {Copy(t)}]
      /\ UNCHANGED <<arg, engine, gyro>>
  BY DEF Cancelled
<1>2. t \in GyroThreads \cup Engines
  BY DEF Cancelled, LockInv, LockTypes
<1>3. DOMAIN sem = Semaphores
  BY DEF LockInv, LockTypes
<1>4. held'[t] = held[t] \ {Copy(t)} /\ \A u \in Threads : u # t => held'[u] = held[u]
  BY <1>1 DEF LockInv, LockTypes
<1>5. script'[t] = <<>> /\ \A u \in Threads : u # t => script'[u] = script[u]
  BY <1>1 DEF LockInv, LockTypes
<1>6. status'[t] = "dead" /\ \A u \in Threads : u # t => status'[u] = status[u]
  BY <1>1 DEF LockInv, LockTypes
<1>7. LockTypes'
  <2>1. sem' \in [Semaphores -> 0..1]
    BY <1>1, <1>3 DEF LockInv, LockTypes
  <2>2. held' \in [Threads -> SUBSET Semaphores]
    BY <1>1 DEF LockInv, LockTypes
  <2>3. status' \in [Threads -> {"unborn", "start", "run", "asleep", "dead"}] /\ DOMAIN script' = Threads
    BY <1>1 DEF LockInv, LockTypes
  <2>4. \A u \in Threads : status'[u] = "dead" => u \in GyroThreads \cup Engines
    BY <1>2, <1>6 DEF LockInv, LockTypes
  <2>5. /\ cancelled' \subseteq GyroThreads \cup Engines /\ arg' \in [Gyros -> 0..1]
        /\ engine' \in Engines /\ gyro' \in [Gyros -> GyroThreads]
    BY <1>1 DEF LockInv, LockTypes
  <2> QED
    BY <2>1, <2>2, <2>3, <2>4, <2>5 DEF LockTypes
<1>8. ASSUME NEW u \in Threads PROVE Places(u)'
  <2>0. Places(u) /\ Places(t)
    BY DEF LockInv
  <2>1. CASE u # t
    BY <1>4, <1>5, <1>6, <2>0, <2>1, Kept
  <2>2. CASE u = t
    <3>1. held'[t] \subseteq Mine(t)
      BY <1>4, <2>0 DEF Places
    <3>2. t \notin Engines => held'[t] = {}
      <4>1. SUFFICES ASSUME t \in GyroThreads PROVE held'[t] = {}
        BY <1>2
      <4>2. held[t] \subseteq {Copy(t)}
        BY <2>0, <4>1, MineFacts DEF Places
      <4> QED
        BY <1>4, <4>2
    <3> QED
      BY <1>5, <1>6, <2>2, <3>1, <3>2 DEF Places
  <2> QED
    BY <2>1, <2>2
<1>9. Keeping'
  <2>1. \A u \in Threads : held'[u] \subseteq held[u] /\ held[u] \subseteq Semaphores
    BY <1>4 DEF LockInv, LockTypes
  <2>2. \A u \in Threads : \A x \in held'[u] : sem'[x] = 0
    <3> SUFFICES ASSUME NEW u \in Threads, NEW x \in held'[u] PROVE sem'[x] = 0
      OBVIOUS
    <3>1. x \in Semaphores /\ sem[x] = 0
      BY <2>1 DEF LockInv, Keeping
    <3> QED
      BY <1>1, <1>3, <3>1
  <2>3. ASSUME NEW x \in Shared, sem'[x] = 0 PROVE \E u \in Threads : x \in held'[u]
    <3>1. x # Copy(t) /\ x \in Semaphores
      BY SharedNames DEF Semaphores
    <3>2. sem[x] = 0
      BY <1>1, <1>3, <2>3, <3>1
    <3>3. PICK u \in Threads : x \in held[u]
      BY <3>2 DEF LockInv, Keeping
    <3> QED
      BY <1>4, <3>1, <3>3
  <2>4. ASSUME NEW u \in Threads, NEW v \in Threads, NEW x \in Shared, x \in held'[u], x \in held'[v]
        PROVE  u = v
    BY <2>1, <2>4 DEF LockInv, Keeping
  <2> QED
    BY <2>2, <2>3, <2>4 DEF Keeping
<1> QED
  BY <1>7, <1>8, <1>9 DEF LockInv

LEMMA InitStep == Init => LockInv
<1> SUFFICES ASSUME Init PROVE LockInv
  OBVIOUS
<1>1. LockTypes
  <2>1. \A t \in Threads : status[t] \in {"unborn", "start", "run", "asleep"}
    BY DEF Init
  <2>2. status \in [Threads -> {"unborn", "start", "run", "asleep", "dead"}]
    <3>1. status = [t \in Threads |-> status[t]]
      BY DEF Init
    <3> QED
      BY <2>1, <3>1
  <2>3. sem \in [Semaphores -> 0..1]
    BY DEF Init, Semaphores
  <2>4. held \in [Threads -> SUBSET Semaphores] /\ DOMAIN script = Threads /\ arg \in [Gyros -> 0..1]
    BY DEF Init
  <2>5. engine \in Engines /\ gyro \in [Gyros -> GyroThreads] /\ cancelled = {}
    <3>1. 1 \in 1..EngineLives /\ 1 \in 1..GyroLives
      BY LivesAssumption
    <3> QED
      BY <3>1 DEF Init, Engines, GyroThreads
  <2> QED
    BY <2>1, <2>2, <2>3, <2>4, <2>5 DEF LockTypes
<1>2. ASSUME NEW t \in Threads PROVE Places(t)
  <2>1. script[t] = <<>> /\ held[t] = {}
    BY DEF Init
  <2> QED
    BY <2>1 DEF Places, Placed
<1>3. Keeping
  BY DEF Init, Keeping
<1> QED
  BY <1>1, <1>2, <1>3 DEF LockInv

\* However the turns, the alarms, cancellations and signals fall, every thread
\* is in the middle of one of its turns and holds what it has taken in it.
THEOREM LocksInvariant == Spec => []LockInv
<1>1. Init => LockInv
  BY InitStep
<1>2. LockInv /\ [Next]_vars => LockInv'
  <2> SUFFICES ASSUME LockInv, [Next]_vars PROVE LockInv'
    OBVIOUS
  <2>1. ASSUME NEW t \in SignalGyros \cup GyroThreads, Start(t) PROVE LockInv'
    BY <2>1, StartStep
  <2>2. ASSUME NEW t \in Threads, Cancelled(t) PROVE LockInv'
    BY <2>2, CancelledStep
  <2>3. ASSUME NEW t \in Threads, NEW turn \in Todo(t), Step(t, turn) PROVE LockInv'
    <3>1. CASE sem_wait(t, turn)
      BY <3>1, WaitStep
    <3>2. CASE UseSem(t, turn)
      BY <3>2, UseStep
    <3>3. CASE sem_post(t, turn)
      BY <3>3, PostStep
    <3>4. CASE terminate_event_1(t, turn)
      BY <3>4, CancelThrustersStep
    <3>5. CASE create_signals_gyros(t, turn)
      BY <3>5, CreateStep
    <3>6. CASE manage_principal_engine(t, turn)
      BY <3>6, RestartStep
    <3>7. CASE WakeSlave(t, turn)
      BY <3>7, WakeStep
    <3>8. CASE pause(t, turn)
      BY <3>8, PauseStep
    <3> QED
      BY <2>3, <3>1, <3>2, <3>3, <3>4, <3>5, <3>6, <3>7, <3>8 DEF Step
  <2>4. CASE UNCHANGED vars
    BY <2>4 DEF vars, LockInv, LockTypes, Places, Placed, Keeping
  <2> QED
    BY <2>1, <2>2, <2>3, <2>4 DEF Next
<1> QED
  BY <1>1, <1>2, PTL DEF Spec

-----------------------------------------------------------------------------
(* What the invariant says of the semaphores and of the threads.           *)

\* The type invariant: each thread is in the middle of one of its turns, and
\* sem_post never raises a semaphore over 1.
THEOREM TypeCorrect == Spec => []TypeOK
<1>1. LockInv => TypeOK
  <2> SUFFICES ASSUME LockInv PROVE TypeOK
    OBVIOUS
  <2>1. ASSUME NEW t \in Threads PROVE script[t] \in ScriptRests[t]
    <3>1. Places(t) /\ status[t] \in Statuses
      BY DEF LockInv, LockTypes, Statuses
    <3>2. script[t] = <<>> \/ Placed(t)
      BY <3>1 DEF Places
    <3>3. script[t] \in Rests(t)
      <4>1. CASE script[t] = <<>>
        BY <4>1 DEF Rests
      <4>2. ASSUME NEW full \in Turns[t], NEW i \in 2..Len(full),
                   script[t] = SubSeq(full, i, Len(full))
            PROVE  script[t] \in Rests(t)
        <5>1. full \in Seq(Ops)
          BY TurnsFit DEF Fits
        <5>2. i \in DOMAIN full
          BY <5>1
        <5>3. script[t] \in {SubSeq(full, j, Len(full)) : j \in DOMAIN full}
          BY <4>2, <5>2
        <5> QED
          BY <5>3 DEF Rests
      <4> QED
        BY <3>2, <4>1, <4>2 DEF Placed
    <3> QED
      BY <3>3 DEF ScriptRests
  <2>2. cancelled \subseteq Threads
    BY DEF LockInv, LockTypes, Threads
  <2>3. sem \in [Shared \cup Copies -> 0..1] /\ held \in [Threads -> SUBSET (Shared \cup Copies)]
    BY DEF LockInv, LockTypes, Semaphores
  <2> QED
    BY <2>1, <2>2, <2>3 DEF LockInv, LockTypes, TypeOK
<1> QED
  BY <1>1, LocksInvariant, PTL

\* Every branch of every thread posts what it took, once, whoever is cancelled
\* in between: a shared semaphore is free or exactly one thread keeps it.
THEOREM Balanced == Spec => []SemBalance
<1>1. LockInv => SemBalance
  <2> SUFFICES ASSUME LockInv, NEW s \in Shared
               PROVE  sem[s] + Cardinality({t \in Threads : s \in held[t]}) = 1
    BY DEF SemBalance
  <2> DEFINE K == {t \in Threads : s \in held[t]}
  <2>1. sem[s] \in 0..1
    BY DEF LockInv, LockTypes, Semaphores
  <2>2. CASE sem[s] = 0
    <3>1. PICK t \in Threads : s \in held[t]
      BY <2>2 DEF LockInv, Keeping
    <3>2. K = {t}
      BY <3>1 DEF LockInv, Keeping
    <3>3. Cardinality(K) = 1
      BY <3>2, FS_Singleton
    <3> QED
      BY <2>2, <3>3
  <2>3. CASE sem[s] = 1
    <3>1. K = {}
      BY <2>3 DEF LockInv, Keeping
    <3>2. Cardinality(K) = 0
      BY <3>1, FS_EmptySet
    <3> QED
      BY <2>3, <3>2
  <2> QED
    BY <2>1, <2>2, <2>3
<1> QED
  BY <1>1, LocksInvariant, PTL

\* A thread that is cancelled leaves nothing taken, unless it is an engine.
THEOREM EnginesOnlyLeak == Spec => []OnlyEngineLeaks
<1>1. LockInv => OnlyEngineLeaks
  BY DEF LockInv, Places, OnlyEngineLeaks
<1> QED
  BY <1>1, LocksInvariant, PTL

-----------------------------------------------------------------------------
(* The circles of waits.                                                   *)

LEMMA Largest ==
  ASSUME NEW n \in Nat, NEW S \in SUBSET (0..n), S # {}
  PROVE  \E m \in S : \A k \in S : k <= m
<1> DEFINE T == {n - k : k \in S}
           R == OpToRel(<, Nat)
<1>1. T \in SUBSET Nat /\ T # {}
  <2>1. T \in SUBSET Nat
    OBVIOUS
  <2>2. PICK k \in S : TRUE
    OBVIOUS
  <2>3. n - k \in T
    OBVIOUS
  <2> QED
    BY <2>1, <2>3
<1>2. IsWellFoundedOn(R, Nat)
  BY NatLessThanWellFounded
<1>3. \A x, y \in Nat : x < y => <<x, y>> \in R
  BY DEF OpToRel
<1>a. \A j \in T : \E k \in S : j = n - k
  OBVIOUS
<1>b. \A k \in S : n - k \in T /\ n - k \in Nat /\ k \in Nat
  OBVIOUS
<1> HIDE DEF T, R
<1>4. PICK j \in T : \A i \in T : <<i, j>> \notin R
  BY <1>1, <1>2, WFMin
<1>5. \A i \in T : ~(i < j)
  BY <1>1, <1>3, <1>4
<1>6. PICK m \in S : j = n - m
  BY <1>a
<1>7. ASSUME NEW k \in S PROVE k <= m
  <2>1. ~(n - k < n - m)
    BY <1>5, <1>6, <1>b
  <2> QED
    BY <1>b, <2>1
<1> QED
  BY <1>7

\* A thread that waits does so where the order of the turns lets it.
LEMMA BlockedAt ==
  ASSUME LockInv, NEW t \in Threads, status[t] = "run", NEW turn \in Todo(t),
         Head(turn)[1] \in {"wait", "use"}
  PROVE  /\ Blocks(t, Head(turn), held[t])
         /\ held[t] # {} => Todo(t) = {turn}
<1>1. PICK full \in Turns[t] : \E i \in 1..Len(full) : StandsAt(t, turn, full, i)
  BY Position
<1>2. PICK i \in 1..Len(full) : StandsAt(t, turn, full, i)
  BY <1>1
<1>3. /\ Head(turn) = full[i] /\ held[t] = HeldAt(full, i)
      /\ IF script[t] = <<>> THEN held[t] = {} ELSE turn = script[t]
  BY <1>2 DEF StandsAt
<1>4. Blocks(t, Head(turn), held[t])
  BY <1>3, TurnsFit DEF Orderly
<1>5. held[t] # {} => Todo(t) = {turn}
  BY <1>3 DEF Todo
<1> QED
  BY <1>4, <1>5

LEMMA LowerOnly ==
  /\ \A g, h \in Gyros : Gs(g) \in Lower(h) => g < h
  /\ \A h : Dist \notin Lower(h) /\ Action \notin Lower(h)
  /\ \A g : Gs(g) \notin {Dist, Action}
<1>1. \A g, h : Gs(g) = Gs(h) => g = h
  BY SemaphoreNames
<1>2. \A h : Gs(h) # Dist /\ Gs(h) # Action
  BY SemaphoreNames
<1>3. ASSUME NEW g \in Gyros, NEW h \in Gyros, Gs(g) \in Lower(h) PROVE g < h
  <2>1. PICK k \in 0..(h - 1) : Gs(g) = Gs(k)
    BY <1>3 DEF Lower
  <2>2. g = k
    BY <1>1, <2>1
  <2> QED
    BY <2>2, MainFacts DEF Gyros
<1> QED
  BY <1>2, <1>3 DEF Lower

\* u keeps semaphores while it waits for one that a waiting thread keeps:
\* sem_action, holding sem_dist, or the next sem_gs[g], holding those below it.
WantsAction(u, op) == op[2] = Action /\ Dist \in held[u] /\ Action \notin held[u]
WantsGyro(u, op) ==
  \E g \in Gyros : op[2] = Gs(g) /\ held[u] \in {Lower(g), {Dist, Action} \cup Lower(g)}
Cutting(u, op) == u = LC /\ op = change_action /\ held[u] = AllGs

LEMMA Wanting ==
  ASSUME LockInv, NEW u \in Threads, NEW v \in Threads, NEW op,
         Blocks(u, op, held[u]), op[2] \in held[v], held[u] # {}
  PROVE  WantsAction(u, op) \/ WantsGyro(u, op) \/ Cutting(u, op)
<1>1. op[2] \in Mine(v)
  BY DEF LockInv, Places
<1>2. op[2] # Gas
  BY <1>1, MineFacts
<1>3. ~(op[2] = Copy(u) /\ Copy(u) \notin held[u])
  BY <1>1, MineFacts
<1>4. Dist # Action /\ Action \notin AllGs
  BY SemaphoreNames, AllPosted DEF AllGs
<1>5. CASE Climbs(op[2], held[u])
  BY <1>2, <1>4, <1>5 DEF Climbs, WantsAction, WantsGyro
<1>6. CASE u = RL /\ op = change_action /\ held[u] = {Dist} \cup AllGs
  <2>1. op[2] = Action
    BY <1>6, OpNames DEF change_action
  <2> QED
    BY <1>4, <1>6, <2>1 DEF WantsAction
<1>7. CASE u = LC /\ Cuts(op, held[u])
  BY <1>7 DEF Cuts, WantsGyro, Cutting
<1> QED
  BY <1>2, <1>3, <1>5, <1>6, <1>7 DEF Blocks

\* The threads wait on one another in a circle only where signal_landing_check
\* calls change_action with every sem_gs taken.  In the other turns a semaphore
\* is waited for in the order sem_dist, sem_action, sem_gs[0], sem_gs[1], ...;
\* signal_restart_landing breaks it too, but whoever holds sem_action then
\* waits for sem_dist first, which it holds.
THEOREM CutsOnlyDeadlock == Spec => []OnlyCutDeadlocks
<1>1. ASSUME LockInv, Deadlocked # {}
      PROVE  LC \in Deadlocked /\ AllGs \subseteq held[LC] /\ \A turn \in Todo(LC) : Head(turn) = change_action
  <2> DEFINE D == Deadlocked
             Bad == LC \in D /\ AllGs \subseteq held[LC] /\ \A turn \in Todo(LC) : Head(turn) = change_action
  <2>1. \A t \in D : t \in Threads /\ \E u \in D : WaitsFor(t, u)
    BY DEF Deadlocked, Waiting
  <2> HIDE DEF D
  <2>2. ASSUME NEW t \in D
        PROVE  \E u \in D : \E turn \in Todo(t) :
                 /\ Head(turn)[2] \in held[u] /\ Blocks(t, Head(turn), held[t])
                 /\ held[t] # {} => Todo(t) = {turn}
    <3>1. PICK u \in D : WaitsFor(t, u)
      BY <2>1
    <3>2. PICK turn \in Todo(t) : TRUE
      BY <3>1 DEF WaitsFor
    <3>3. status[t] = "run" /\ Head(turn)[1] \in {"wait", "use"} /\ Head(turn)[2] \in held[u]
      BY <3>1, <3>2 DEF WaitsFor
    <3> QED
      BY <1>1, <2>1, <3>3, BlockedAt
  <2> SUFFICES ASSUME ~Bad PROVE FALSE
    BY DEF D
  <2>3. ASSUME NEW u \in D, held[u] # {}
        PROVE  \E v \in D : \E op : op[2] \in held[v] /\ (WantsAction(u, op) \/ WantsGyro(u, op))
    <3>1. PICK v \in D : \E turn \in Todo(u) :
            /\ Head(turn)[2] \in held[v] /\ Blocks(u, Head(turn), held[u])
            /\ held[u] # {} => Todo(u) = {turn}
      BY <2>2
    <3>2. PICK turn \in Todo(u) :
            /\ Head(turn)[2] \in held[v] /\ Blocks(u, Head(turn), held[u])
            /\ held[u] # {} => Todo(u) = {turn}
      BY <3>1
    <3>3. WantsAction(u, Head(turn)) \/ WantsGyro(u, Head(turn)) \/ Cutting(u, Head(turn))
      BY <1>1, <2>1, <2>3, <3>2, Wanting
    <3>4. ~Cutting(u, Head(turn))
      <4> SUFFICES ASSUME Cutting(u, Head(turn)) PROVE Bad
        OBVIOUS
      <4> QED
        BY <2>3, <3>2 DEF Cutting
    <3> QED
      BY <3>2, <3>3, <3>4
  <2>4. ASSUME NEW u \in D, NEW v \in D, NEW op, op[2] \in held[v], WantsAction(u, op)
        PROVE  FALSE
    <3>1. Action \in held[v] /\ Dist \in held[u] /\ Action \notin held[u]
      BY <2>4 DEF WantsAction
    <3>2. PICK op2 : \E w \in D : op2[2] \in held[w] /\ (WantsAction(v, op2) \/ WantsGyro(v, op2))
      BY <2>3, <3>1
    <3>3. WantsGyro(v, op2)
      BY <3>1, <3>2 DEF WantsAction
    <3>4. Dist \in held[v]
      BY <3>1, <3>3, LowerOnly DEF WantsGyro
    <3>5. u = v
      BY <1>1, <2>1, <3>1, <3>4, SharedNames DEF LockInv, Keeping
    <3> QED
      BY <3>1, <3>5
  <2>5. ASSUME NEW u \in D, held[u] # {}
        PROVE  \E v \in D : \E h \in Gyros :
                 Gs(h) \in held[v] /\ held[u] \in {Lower(h), {Dist, Action} \cup Lower(h)}
    <3>1. PICK v \in D : \E op : op[2] \in held[v] /\ (WantsAction(u, op) \/ WantsGyro(u, op))
      BY <2>3, <2>5
    <3>2. PICK op : op[2] \in held[v] /\ WantsGyro(u, op)
      BY <2>4, <3>1
    <3> QED
      BY <3>1, <3>2 DEF WantsGyro
  <2> DEFINE J == {g \in Gyros : \E u \in D : Gs(g) \in held[u]}
  <2>6. J # {}
    <3>1. PICK t \in D : TRUE
      BY <1>1 DEF D
    <3>2. PICK u \in D : held[u] # {}
      BY <2>2
    <3> QED
      BY <2>5, <3>2
  <2>7. ASSUME NEW g \in J PROVE \E h \in J : g < h
    <3>1. PICK u \in D : Gs(g) \in held[u]
      OBVIOUS
    <3>2. PICK v \in D, h \in Gyros :
            Gs(h) \in held[v] /\ held[u] \in {Lower(h), {Dist, Action} \cup Lower(h)}
      BY <2>5, <3>1
    <3>3. Gs(g) \in Lower(h)
      BY <3>1, <3>2, LowerOnly
    <3>4. g < h
      BY <3>3, LowerOnly
    <3> QED
      BY <3>2, <3>4
  <2>8. J \in SUBSET (0..(NUM_GYROS - 1)) /\ NUM_GYROS - 1 \in Nat
    BY MainFacts DEF Gyros
  <2> HIDE DEF J
  <2>9. PICK m \in J : \A k \in J : k <= m
    BY <2>6, <2>8, Largest
  <2>10. PICK h \in J : m < h
    BY <2>7
  <2> QED
    BY <2>8, <2>9, <2>10
<1>2. LockInv => OnlyCutDeadlocks
  BY <1>1 DEF OnlyCutDeadlocks
<1> QED
  BY <1>2, LocksInvariant, PTL
=============================================================================
