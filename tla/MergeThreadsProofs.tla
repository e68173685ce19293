------------------------- MODULE MergeThreadsProofs -------------------------
(***************************************************************************)
(* merge_threads.c: the slices of any array for any number of threads, and *)
(* what its threads and main make of them.                                 *)
(***************************************************************************)
EXTENDS MergeThreads, TLAPS, FiniteSetTheorems, FunctionTheorems, SequenceTheorems,
        WellFoundedInduction, NaturalsInduction

-----------------------------------------------------------------------------
(* The slices.                                                             *)

\* The shares fit in the array.
LEMMA SharesFit ==
  ASSUME NEW L \in Nat, NEW N \in Nat \ {0}
  PROVE  Share(L, N) \in Nat /\ N * Share(L, N) <= L
  BY DEF Share

\* Products with a natural number keep the order.
LEMMA Monotone ==
  ASSUME NEW a \in Nat, NEW b \in Nat, NEW s \in Nat, a <= b
  PROVE  a * s <= b * s
  OBVIOUS

\* Two threads never work on the same element: merge_threads.c needs no lock.
THEOREM SlicesDisjoint ==
  ASSUME NEW L \in Nat, NEW N \in Nat \ {0},
         NEW i \in 0 .. N - 1, NEW j \in 0 .. N - 1, i # j
  PROVE  Slice(L, N, i) \cap Slice(L, N, j) = {}
<1> DEFINE s == Share(L, N)
<1>1. s \in Nat /\ N * s <= L
  BY SharesFit
<1> HIDE DEF s
<1>2. ASSUME NEW a \in 0 .. N - 1, NEW b \in 0 .. N - 1, a < b
      PROVE  Slice(L, N, a) \cap Slice(L, N, b) = {}
  <2>1. a + 1 \in Nat /\ b \in Nat /\ a + 1 <= b /\ a # N - 1
    BY <1>2
  <2>2. (a + 1) * s <= b * s
    BY <1>1, <2>1, Monotone
  <2>3. (a + 1) * s = a * s + s /\ a * s \in Int /\ b * s \in Int
    BY <1>1
  <2>4. ind_right(L, N, a) = a * s + s - 1 /\ ind_left(L, N, b) = b * s
    BY <2>1 DEF ind_left, ind_right, s
  <2>5. ind_left(L, N, a) \in Int /\ ind_right(L, N, b) \in Int
    BY <1>1 DEF ind_left, ind_right, s
  <2>6. ind_right(L, N, a) < ind_left(L, N, b)
    BY <1>1, <2>2, <2>3, <2>4
  <2>7. QED
    BY <2>3, <2>4, <2>5, <2>6, <1>1 DEF Slice
<1>3. CASE i < j
  BY <1>2, <1>3
<1>4. CASE j < i
  BY <1>2, <1>4
<1>5. QED
  BY <1>3, <1>4

\* The slices follow one another from the first element to the last, which is
\* what main's merges of a prefix with the next slice rely on.
THEOREM SlicesAdjacent ==
  ASSUME NEW L \in Nat, NEW N \in Nat \ {0}
  PROVE  /\ ind_left(L, N, 0) = 0
         /\ ind_right(L, N, N - 1) = L - 1
         /\ \A i \in 1 .. N - 1 : ind_right(L, N, i - 1) = ind_left(L, N, i) - 1
         /\ \A i \in 0 .. N - 1 : Slice(L, N, i) \subseteq 0 .. L - 1
<1> DEFINE s == Share(L, N)
<1>1. s \in Nat /\ N * s <= L
  BY SharesFit
<1> HIDE DEF s
<1>2. ind_left(L, N, 0) = 0
  BY <1>1 DEF ind_left, s
<1>3. ind_right(L, N, N - 1) = L - 1
  BY DEF ind_right
<1>4. ASSUME NEW i \in 1 .. N - 1 PROVE ind_right(L, N, i - 1) = ind_left(L, N, i) - 1
  <2>1. i - 1 # N - 1
    OBVIOUS
  <2>2. (i - 1) * s + s = i * s
    BY <1>1
  <2>3. QED
    BY <1>1, <2>1, <2>2 DEF ind_left, ind_right, s
<1>5. ASSUME NEW i \in 0 .. N - 1 PROVE Slice(L, N, i) \subseteq 0 .. L - 1
  <2>1. i * s \in Nat
    BY <1>1
  <2>2. ind_left(L, N, i) \in Nat
    BY <2>1 DEF ind_left, s
  <2>3. ind_right(L, N, i) \in Int /\ ind_right(L, N, i) <= L - 1
    <3>1. CASE i = N - 1
      BY <3>1 DEF ind_right
    <3>2. CASE i # N - 1
      <4>1. (i + 1) * s <= N * s
        BY <1>1, Monotone
      <4>2. i * s + s <= L
        BY <1>1, <4>1
      <4>3. QED
        BY <1>1, <2>1, <3>2, <4>2 DEF ind_right, ind_left, s
    <3>3. QED
      BY <3>1, <3>2
  <2>4. QED
    BY <2>2, <2>3 DEF Slice
<1>6. QED
  BY <1>2, <1>3, <1>4, <1>5

-----------------------------------------------------------------------------
(* The invariant.                                                          *)

Blocks == UNION {[0 .. m -> Values] : m \in Int}
CallTypes ==
  [low : Int, half : Int, high : Int, left : Blocks, right : Blocks, i : Int, j : Int, ind_array : Int]
FrameTypes == [low : Int, high : Int, at : {"start", "first", "second"}]

Index == 0 .. LENGTH_ARRAY - 1

\* The types; main is in one of its three loops.
Types ==
  /\ LENGTH_ARRAY \in Nat
  /\ input \in [Index -> Values]
  /\ array \in [Index -> Values]
  /\ n \in Nat \ {0}
  /\ frames \in [Threads -> Seq(FrameTypes)]
  /\ inside \subseteq Callers
  /\ call \in [Callers -> CallTypes]
  /\ alive \subseteq Threads
  /\ main \in ({"create", "join"} \X Threads) \cup ({"merge"} \X (1 .. n))

\* A call of merge: its arguments, the copies, and how far the loops have got.
Arguments(m) ==
  /\ 0 <= m.low /\ m.low <= m.half + 1 /\ m.half <= m.high /\ m.high <= LENGTH_ARRAY - 1
  /\ m.left \in [0 .. m.half - m.low -> Values]
  /\ m.right \in [0 .. m.high - m.half - 1 -> Values]
  /\ 0 <= m.i /\ m.i <= m.half - m.low + 1
  /\ 0 <= m.j /\ m.j <= m.high - m.half
  /\ m.ind_array = m.low + m.i + m.j

\* The copies are sorted, and so is what has been written; nothing that waits in
\* a copy is less than it.
LoopSorted(m, arr) ==
  /\ Sorted(m.left, 0, m.half - m.low)
  /\ Sorted(m.right, 0, m.high - m.half - 1)
  /\ Sorted(arr, m.low, m.ind_array - 1)
  /\ \A k \in m.low .. m.ind_array - 1 :
       /\ \A a \in m.i .. m.half - m.low : arr[k] <= m.left[a]
       /\ \A b \in m.j .. m.high - m.half - 1 : arr[k] <= m.right[b]

HalfOf(f) == f.low + (f.high - f.low) \div 2

\* The call of merge_sort that frame f is waiting for.
CalledLow(f) == IF f.at = "first" THEN f.low ELSE HalfOf(f) + 1
CalledHigh(f) == IF f.at = "first" THEN HalfOf(f) ELSE f.high

\* The calls of merge_sort of thread i, each within what the ones around it
\* have called.
Nested(i) ==
  LET f == frames[i] IN
  /\ f # <<>> => f[1].low = Left(i) /\ f[1].high = Right(i)
  /\ \A d \in 1 .. Len(f) :
       /\ Left(i) <= f[d].low /\ f[d].high <= Right(i)
       /\ f[d].at # "start" => f[d].low < f[d].high
       /\ d < Len(f) =>
            /\ f[d].at # "start"
            /\ f[d + 1].low = CalledLow(f[d]) /\ f[d + 1].high = CalledHigh(f[d])
  /\ \A d, e \in 1 .. Len(f) :
       d < e => CalledLow(f[d]) <= f[e].low /\ f[e].high <= CalledHigh(f[d])

\* Thread i has been created.
Created(i) == main[1] # "create" \/ i < main[2]

\* Thread i is in the merge of its innermost call of merge_sort.
InMerge(i) ==
  /\ i \in alive /\ frames[i] # <<>> /\ Top(i).at = "second"
  /\ call[i].low = Top(i).low /\ call[i].half = Half(i) /\ call[i].high = Top(i).high

\* main is merging slice main[2] with what is before it.
MainInMerge ==
  /\ main[1] = "merge" /\ main[2] < n
  /\ call[Main].low = Left(0) /\ call[Main].half = Left(main[2]) - 1
  /\ call[Main].high = Right(main[2])

\* Who is where: a thread that is not running has no call, a joined one has
\* finished, and whoever is in merge has been called for its own block.
Control ==
  /\ \A i \in Threads : Nested(i)
  /\ \A i \in Threads : i \notin alive => frames[i] = <<>>
  /\ \A i \in alive : Created(i) /\ (main[1] = "join" => i >= main[2])
  /\ main[1] = "merge" => alive = {}
  /\ \A i \in Threads \cap inside : InMerge(i)
  /\ Main \in inside => MainInMerge
  /\ \A c \in inside : Arguments(call[c])

\* What the calls of merge_sort of thread i have sorted so far.
FramesSorted(i) ==
  /\ \A d \in 1 .. Len(frames[i]) :
       frames[i][d].at = "second" /\ (d < Len(frames[i]) \/ i \notin inside) =>
         Sorted(array, frames[i][d].low, HalfOf(frames[i][d]))
  /\ frames[i] # <<>> /\ i \notin inside =>
       /\ Top(i).at = "first" => Sorted(array, Top(i).low, Half(i))
       /\ Top(i).at = "second" => Sorted(array, Half(i) + 1, Top(i).high)

\* The slices main has still to merge.
Unmerged ==
  {i \in Threads : main[1] = "merge" => i > main[2] \/ (i = main[2] /\ Main \notin inside)}

\* What is sorted already: by the calls under way, by the threads that are done
\* and, in its last loop, by main.
Order ==
  /\ \A c \in inside : LoopSorted(call[c], array)
  /\ \A i \in Threads : FramesSorted(i)
  /\ \A i \in Unmerged : Created(i) /\ frames[i] = <<>> => Sorted(array, Left(i), Right(i))
  /\ main[1] = "merge" /\ Main \notin inside => Sorted(array, 0, Right(main[2] - 1))

\* The numbers a call of merge has still to write, where they would stand if it
\* wrote the rest of left and then the rest of right.
Pending(m) == m.ind_array .. m.high
PendingAt(m, k) ==
  IF k - m.ind_array <= m.half - m.low - m.i
  THEN m.left[m.i + (k - m.ind_array)]
  ELSE m.right[k - m.half - 1]

\* The array, with what is pending in its place, is the input rearranged by p.
Rearranges(p) ==
  /\ \A k \in Index : (\A c \in inside : k \notin Pending(call[c])) => array[k] = input[p[k]]
  /\ \A c \in inside : \A k \in Pending(call[c]) : PendingAt(call[c], k) = input[p[k]]

\* Nothing is lost: some rearrangement does.
Rearranged == \E p \in Bijection(Index, Index) : Rearranges(p)

\* The inductive invariant.
MergeInv == Types /\ Control /\ Order /\ Rearranged

-----------------------------------------------------------------------------
(* What stays, and the slices of this array.                               *)

LEMMA Fixed ==
  ASSUME UNCHANGED <<input, n>>
  PROVE  /\ LENGTH_ARRAY' = LENGTH_ARRAY /\ Index' = Index
         /\ Threads' = Threads /\ Callers' = Callers
         /\ \A i : Left(i)' = Left(i) /\ Right(i)' = Right(i)
  BY DEF LENGTH_ARRAY, Index, Threads, Callers, Left, Right

LEMMA SliceFacts ==
  ASSUME Types
  PROVE  /\ \A i \in Threads :
              /\ Left(i) \in Int /\ Right(i) \in Int
              /\ 0 <= Left(i) /\ Left(i) <= Right(i) + 1 /\ Right(i) <= LENGTH_ARRAY - 1
         /\ Left(0) = 0 /\ Right(n - 1) = LENGTH_ARRAY - 1
         /\ \A i \in 1 .. n - 1 : Right(i - 1) = Left(i) - 1
         /\ \A i, j \in Threads : i < j => Right(i) < Left(j)
<1> DEFINE L == LENGTH_ARRAY
           s == Share(L, n)
<1>1. L \in Nat /\ n \in Nat \ {0}
  BY DEF Types
<1>2. s \in Nat /\ n * s <= L
  BY <1>1, SharesFit
<1>3. /\ Left(0) = 0 /\ Right(n - 1) = L - 1
      /\ \A i \in 1 .. n - 1 : Right(i - 1) = Left(i) - 1
  BY <1>1, SlicesAdjacent DEF Left, Right
<1> HIDE DEF L, s
<1>4. \A i \in Threads : Left(i) = i * s /\ (i # n - 1 => Right(i) = i * s + s - 1)
  BY DEF Left, Right, ind_left, ind_right, s, L
<1>5. ASSUME NEW i \in Threads
      PROVE  /\ Left(i) \in Int /\ Right(i) \in Int
             /\ 0 <= Left(i) /\ Left(i) <= Right(i) + 1 /\ Right(i) <= L - 1
  <2>1. i \in Nat /\ i * s \in Nat
    BY <1>1, <1>2 DEF Threads
  <2>2. i * s <= n * s /\ (i + 1) * s <= n * s
    BY <1>1, <1>2, <2>1, Monotone DEF Threads
  <2>3. (i + 1) * s = i * s + s /\ n * s \in Nat
    BY <1>1, <1>2, <2>1
  <2>4. CASE i = n - 1
    BY <1>1, <1>2, <1>3, <1>4, <2>1, <2>2, <2>3, <2>4
  <2>5. CASE i # n - 1
    BY <1>1, <1>2, <1>4, <2>1, <2>2, <2>3, <2>5
  <2> QED
    BY <2>4, <2>5
<1>6. ASSUME NEW i \in Threads, NEW j \in Threads, i < j PROVE Right(i) < Left(j)
  <2>1. i \in Nat /\ j \in Nat /\ i + 1 <= j /\ i # n - 1
    BY <1>1, <1>6 DEF Threads
  <2>2. (i + 1) * s <= j * s
    BY <1>2, <2>1, Monotone
  <2>3. (i + 1) * s = i * s + s /\ i * s \in Int /\ j * s \in Int
    BY <1>2, <2>1
  <2> QED
    BY <1>2, <1>4, <2>1, <2>2, <2>3
<1> QED
  BY <1>3, <1>5, <1>6 DEF L

LEMMA Halves ==
  ASSUME NEW f \in FrameTypes
  PROVE  /\ HalfOf(f) \in Int
         /\ f.low < f.high => f.low <= HalfOf(f) /\ HalfOf(f) < f.high
<1>1. f.low \in Int /\ f.high \in Int
  BY DEF FrameTypes
<1> DEFINE d == f.high - f.low
<1>2. d \in Int /\ d \div 2 \in Int /\ (0 < d => 0 <= d \div 2 /\ d \div 2 < d)
  BY <1>1
<1>3. HalfOf(f) = f.low + d \div 2 /\ f.high = f.low + d /\ (f.low < f.high => 0 < d)
  BY <1>1 DEF HalfOf
<1> HIDE DEF d
<1> QED
  BY <1>1, <1>2, <1>3

-----------------------------------------------------------------------------
(* The stack of calls.                                                     *)

\* g is f with a call more, to which the call around it has gone on.
OneMore(f, g, at, low, high) ==
  /\ g \in Seq(FrameTypes) /\ g # <<>> /\ Len(f) \in Nat \ {0} /\ Len(g) = Len(f) + 1
  /\ \A d \in 1 .. Len(f) - 1 : g[d] = f[d]
  /\ g[Len(f)].low = f[Len(f)].low /\ g[Len(f)].high = f[Len(f)].high /\ g[Len(f)].at = at
  /\ g[Len(f) + 1].low = low /\ g[Len(f) + 1].high = high /\ g[Len(f) + 1].at = "start"

LEMMA Pushed ==
  ASSUME NEW f \in Seq(FrameTypes), f # <<>>, NEW at \in {"first", "second"},
         NEW low \in Int, NEW high \in Int,
         NEW g, g = Append([f EXCEPT ![Len(f)].at = at], Frame(low, high))
  PROVE  OneMore(f, g, at, low, high)
<1> DEFINE len == Len(f)
           top == [f[len] EXCEPT !.at = at]
           h == [f EXCEPT ![len] = top]
<1>1. len \in Nat \ {0} /\ len \in 1 .. len /\ f \in [1 .. len -> FrameTypes]
  BY EmptySeq, LenProperties
<1>2. f[len] \in FrameTypes
  BY <1>1
<1>3. top.low = f[len].low /\ top.high = f[len].high /\ top.at = at
  BY <1>2 DEF FrameTypes
<1>4. top \in FrameTypes
  BY <1>2 DEF FrameTypes
<1>5. Frame(low, high) \in FrameTypes
  BY DEF Frame, FrameTypes
<1>6. h = [f EXCEPT ![Len(f)].at = at]
  OBVIOUS
<1>7. g = Append(h, Frame(low, high))
  BY <1>6
<1>8. h \in Seq(FrameTypes) /\ Len(h) = len /\ \A d \in 1 .. len : h[d] = IF d = len THEN top ELSE f[d]
  BY <1>1, <1>4, ExceptSeq
<1> HIDE DEF h, top, len
<1>9. /\ g \in Seq(FrameTypes) /\ g # <<>> /\ Len(g) = Len(h) + 1
      /\ \A d \in 1 .. Len(h) : g[d] = h[d]
      /\ g[Len(h) + 1] = Frame(low, high)
  <2> DEFINE last == Frame(low, high)
  <2>1. h \in Seq(FrameTypes) /\ last \in FrameTypes /\ g = Append(h, last)
    BY <1>5, <1>7, <1>8
  <2> HIDE DEF last
  <2>2. /\ Append(h, last) \in Seq(FrameTypes) /\ Append(h, last) # <<>>
        /\ Len(Append(h, last)) = Len(h) + 1
        /\ \A d \in 1 .. Len(h) : Append(h, last)[d] = h[d]
        /\ Append(h, last)[Len(h) + 1] = last
    BY <2>1, AppendProperties
  <2> QED
    BY <2>1, <2>2 DEF last
<1>10. /\ Len(g) = len + 1 /\ g[len + 1] = Frame(low, high) /\ g[len] = top
       /\ \A d \in 1 .. len - 1 : g[d] = f[d]
  BY <1>1, <1>8, <1>9
<1>11. g[len + 1].low = low /\ g[len + 1].high = high /\ g[len + 1].at = "start"
  BY <1>10 DEF Frame
<1>12. g[len].low = f[len].low /\ g[len].high = f[len].high /\ g[len].at = at
  BY <1>3, <1>10
<1> QED
  BY <1>1, <1>9, <1>10, <1>11, <1>12 DEF len, OneMore

\* g is f with a call less.
OneLess(f, g) ==
  /\ g \in Seq(FrameTypes) /\ Len(f) \in Nat \ {0} /\ Len(g) = Len(f) - 1
  /\ \A d \in 1 .. Len(f) - 1 : g[d] = f[d]
  /\ g # <<>> <=> Len(f) > 1

LEMMA Popped ==
  ASSUME NEW f \in Seq(FrameTypes), f # <<>>, NEW g, g = SubSeq(f, 1, Len(f) - 1)
  PROVE  OneLess(f, g)
<1> DEFINE len == Len(f)
<1>1. len \in Nat \ {0} /\ f \in [1 .. len -> FrameTypes]
  BY EmptySeq, LenProperties
<1>2. \A d \in 1 .. len - 1 : f[d] \in FrameTypes
  BY <1>1
<1>3. /\ g \in Seq(FrameTypes)
      /\ Len(g) = IF 1 <= len - 1 THEN len - 1 - 1 + 1 ELSE 0
      /\ \A d \in 1 .. len - 1 - 1 + 1 : g[d] = f[1 + d - 1]
  BY <1>1, <1>2, SubSeqProperties
<1>4. Len(g) = len - 1 /\ \A d \in 1 .. len - 1 : g[d] = f[d]
  BY <1>1, <1>3
<1>5. g # <<>> <=> Len(g) # 0
  BY <1>3, EmptySeq
<1> QED
  BY <1>1, <1>3, <1>4, <1>5 DEF OneLess

-----------------------------------------------------------------------------
(* What the steps of merge do.                                             *)

LEMMA NoCallFits == NoCall \in CallTypes
<1> DEFINE l == [k \in 0 .. -1 - 0 |-> <<>>[0 + k]]
           r == [k \in 0 .. -1 - (-1) - 1 |-> <<>>[-1 + 1 + k]]
<1>1. NoCall = [low |-> 0, half |-> -1, high |-> -1, left |-> l, right |-> r,
                i |-> 0, j |-> 0, ind_array |-> 0]
  BY DEF NoCall, Opened
<1>2. l \in [0 .. -1 -> Values]
  OBVIOUS
<1>3. r \in [0 .. -1 -> Values]
  OBVIOUS
<1> HIDE DEF l, r
<1>4. -1 \in Int
  OBVIOUS
<1>5. l \in Blocks /\ r \in Blocks
  BY <1>2, <1>3, <1>4 DEF Blocks
<1> QED
  BY <1>1, <1>4, <1>5 DEF CallTypes

LEMMA OpenedFits ==
  ASSUME Types, NEW low, NEW half, NEW high, low \in Int, half \in Int, high \in Int,
         0 <= low, low <= half + 1, half <= high, high <= LENGTH_ARRAY - 1,
         NEW m, m = Opened(array, low, half, high)
  PROVE  /\ m \in CallTypes /\ Arguments(m)
         /\ m.low = low /\ m.half = half /\ m.high = high
         /\ m.i = 0 /\ m.j = 0 /\ m.ind_array = low
         /\ \A k \in 0 .. half - low : m.left[k] = array[low + k]
         /\ \A k \in 0 .. high - half - 1 : m.right[k] = array[half + 1 + k]
<1> DEFINE l == [k \in 0 .. half - low |-> array[low + k]]
           r == [k \in 0 .. high - half - 1 |-> array[half + 1 + k]]
<1>1. LENGTH_ARRAY \in Nat /\ array \in [0 .. LENGTH_ARRAY - 1 -> Values]
  BY DEF Types, Index
<1>2. l \in [0 .. half - low -> Values] /\ r \in [0 .. high - half - 1 -> Values]
  BY <1>1
<1>3. half - low \in Int /\ high - half - 1 \in Int
  OBVIOUS
<1>4. l \in Blocks /\ r \in Blocks
  BY <1>2, <1>3 DEF Blocks
<1>5. /\ \A k \in 0 .. half - low : l[k] = array[low + k]
      /\ \A k \in 0 .. high - half - 1 : r[k] = array[half + 1 + k]
  OBVIOUS
<1>6. m = [low |-> low, half |-> half, high |-> high, left |-> l, right |-> r,
           i |-> 0, j |-> 0, ind_array |-> low]
  BY DEF Opened
<1> HIDE DEF l, r
<1>7. m \in CallTypes
  BY <1>4, <1>6 DEF CallTypes
<1>8. Arguments(m)
  BY <1>1, <1>2, <1>6 DEF Arguments
<1> QED
  BY <1>5, <1>6, <1>7, <1>8

\* merge is where its arguments and its two counters say.
LEMMA CallFacts ==
  ASSUME Types, NEW m \in CallTypes, Arguments(m)
  PROVE  /\ m.low \in Int /\ m.half \in Int /\ m.high \in Int
         /\ m.i \in Int /\ m.j \in Int /\ m.ind_array = m.low + m.i + m.j /\ m.ind_array \in Int
         /\ m.low .. m.high \subseteq Index
         /\ 0 <= m.low /\ m.low <= m.half + 1 /\ m.half <= m.high /\ m.high <= LENGTH_ARRAY - 1
         /\ 0 <= m.i /\ m.i <= m.half - m.low + 1
         /\ 0 <= m.j /\ m.j <= m.high - m.half
         /\ \A k \in 0 .. m.half - m.low : m.left[k] \in Values /\ m.left[k] \in Int
         /\ \A k \in 0 .. m.high - m.half - 1 : m.right[k] \in Values /\ m.right[k] \in Int
<1>1. /\ m.low \in Int /\ m.half \in Int /\ m.high \in Int
      /\ m.i \in Int /\ m.j \in Int
  BY DEF CallTypes
<1>2. LENGTH_ARRAY \in Nat
  BY DEF Types
<1>3. Values \subseteq Int
  BY BoundsAssumption
<1>4. /\ 0 <= m.low /\ m.low <= m.half + 1 /\ m.half <= m.high /\ m.high <= LENGTH_ARRAY - 1
      /\ 0 <= m.i /\ m.i <= m.half - m.low + 1
      /\ 0 <= m.j /\ m.j <= m.high - m.half
      /\ m.ind_array = m.low + m.i + m.j
  BY DEF Arguments
<1>5. /\ m.left \in [0 .. m.half - m.low -> Values]
      /\ m.right \in [0 .. m.high - m.half - 1 -> Values]
  BY DEF Arguments
<1>6. /\ \A k \in 0 .. m.half - m.low : m.left[k] \in Values /\ m.left[k] \in Int
      /\ \A k \in 0 .. m.high - m.half - 1 : m.right[k] \in Values /\ m.right[k] \in Int
  BY <1>3, <1>5
<1>7. m.low .. m.high \subseteq Index /\ m.ind_array \in Int
  BY <1>1, <1>2, <1>4 DEF Index
<1> QED
  BY <1>1, <1>4, <1>6, <1>7

\* What both steps do: one number is written, within the reach of the call.
TakenBy(c) ==
  LET m == call[c] IN
  /\ c \in inside /\ m \in CallTypes /\ Arguments(m)
  /\ m.ind_array \in m.low .. m.high
  /\ array' \in [Index -> Values]
  /\ \A k \in Index : k # m.ind_array => array'[k] = array[k]
  /\ call' \in [Callers -> CallTypes] /\ Arguments(call'[c])
  /\ \A d \in Callers : d # c => call'[d] = call[d]
  /\ call'[c].low = m.low /\ call'[c].half = m.half /\ call'[c].high = m.high
  /\ call'[c].left = m.left /\ call'[c].right = m.right
  /\ call'[c].ind_array = m.ind_array + 1
  /\ UNCHANGED <<input, n, frames, inside, alive, main>>

LEMMA TakenLeft ==
  ASSUME Types, Control, NEW c \in Callers, TakeLeft(c)
  PROVE  /\ TakenBy(c)
         /\ call[c].i \in 0 .. call[c].half - call[c].low
         /\ array'[call[c].ind_array] = call[c].left[call[c].i]
         /\ call'[c].i = call[c].i + 1 /\ call'[c].j = call[c].j
         /\ call[c].j < call[c].high - call[c].half
              => call[c].left[call[c].i] <= call[c].right[call[c].j]
<1> DEFINE m == call[c]
           p == [m EXCEPT !.i = @ + 1, !.ind_array = @ + 1]
<1>0. call[c] \in CallTypes
  BY DEF Types
<1>1. c \in inside /\ m \in CallTypes /\ Arguments(m)
  BY <1>0 DEF TakeLeft, Control
<1>2. call' = [call EXCEPT ![c] = p]
  BY DEF TakeLeft
<1>3. /\ p.low = m.low /\ p.half = m.half /\ p.high = m.high
      /\ p.left = m.left /\ p.right = m.right
      /\ p.i = m.i + 1 /\ p.j = m.j /\ p.ind_array = m.ind_array + 1
  BY <1>1 DEF CallTypes
<1>4. p \in CallTypes
  <2>1. m.i + 1 \in Int /\ m.ind_array + 1 \in Int
    BY <1>1 DEF CallTypes
  <2> QED
    BY <1>1, <2>1 DEF CallTypes
<1>5. m.i < m.half - m.low + 1
  BY DEF TakeLeft, LeftLeft
<1> HIDE DEF p
<1>6. call' \in [Callers -> CallTypes] /\ call'[c] = p /\ \A d \in Callers : d # c => call'[d] = call[d]
  BY <1>2, <1>4 DEF Types
<1> HIDE DEF m
<1>7. m.ind_array \in m.low .. m.high /\ m.i \in 0 .. m.half - m.low /\ m.left[m.i] \in Values
  BY <1>1, <1>5, CallFacts
<1>8. Arguments(p)
  <2>1. /\ m.low \in Int /\ m.i \in Int /\ m.j \in Int /\ m.half \in Int /\ m.high \in Int
        /\ 0 <= m.i /\ m.i <= m.half - m.low + 1 /\ 0 <= m.j /\ m.j <= m.high - m.half
        /\ m.ind_array = m.low + m.i + m.j
    BY <1>1, CallFacts
  <2>2. /\ p.left \in [0 .. p.half - p.low -> Values]
        /\ p.right \in [0 .. p.high - p.half - 1 -> Values]
        /\ 0 <= p.low /\ p.low <= p.half + 1 /\ p.half <= p.high /\ p.high <= LENGTH_ARRAY - 1
    BY <1>1, <1>3 DEF Arguments
  <2>3. /\ 0 <= p.i /\ p.i <= p.half - p.low + 1
        /\ 0 <= p.j /\ p.j <= p.high - p.half
        /\ p.ind_array = p.low + p.i + p.j
    BY <1>3, <1>5, <2>1
  <2> QED
    BY <2>2, <2>3 DEF Arguments
<1>9. m.ind_array \in Index
  BY <1>1, <1>7, CallFacts
<1>10. array' = [array EXCEPT ![m.ind_array] = m.left[m.i]]
  BY DEF TakeLeft, m
<1>11. /\ array' \in [Index -> Values] /\ array'[m.ind_array] = m.left[m.i]
       /\ \A k \in Index : k # m.ind_array => array'[k] = array[k]
  BY <1>7, <1>9, <1>10 DEF Types
<1>12. UNCHANGED <<input, n, frames, inside, alive, main>>
  BY DEF TakeLeft
<1>13. TakenBy(c)
  BY <1>1, <1>3, <1>6, <1>7, <1>8, <1>11, <1>12 DEF TakenBy, m
<1>14. m.j < m.high - m.half => m.left[m.i] <= m.right[m.j]
  BY DEF TakeLeft, RightLeft, m
<1> QED
  BY <1>3, <1>6, <1>7, <1>11, <1>13, <1>14 DEF m

LEMMA TakenRight ==
  ASSUME Types, Control, NEW c \in Callers, TakeRight(c)
  PROVE  /\ TakenBy(c)
         /\ call[c].j \in 0 .. call[c].high - call[c].half - 1
         /\ array'[call[c].ind_array] = call[c].right[call[c].j]
         /\ call'[c].i = call[c].i /\ call'[c].j = call[c].j + 1
         /\ call[c].i < call[c].half - call[c].low + 1
              => call[c].left[call[c].i] > call[c].right[call[c].j]
<1> DEFINE m == call[c]
           p == [m EXCEPT !.j = @ + 1, !.ind_array = @ + 1]
<1>0. call[c] \in CallTypes
  BY DEF Types
<1>1. c \in inside /\ m \in CallTypes /\ Arguments(m)
  BY <1>0 DEF TakeRight, Control
<1>2. call' = [call EXCEPT ![c] = p]
  BY DEF TakeRight
<1>3. /\ p.low = m.low /\ p.half = m.half /\ p.high = m.high
      /\ p.left = m.left /\ p.right = m.right
      /\ p.i = m.i /\ p.j = m.j + 1 /\ p.ind_array = m.ind_array + 1
  BY <1>1 DEF CallTypes
<1>4. p \in CallTypes
  <2>1. m.j + 1 \in Int /\ m.ind_array + 1 \in Int
    BY <1>1 DEF CallTypes
  <2> QED
    BY <1>1, <2>1 DEF CallTypes
<1>5. m.j < m.high - m.half
  BY DEF TakeRight, RightLeft
<1> HIDE DEF p
<1>6. call' \in [Callers -> CallTypes] /\ call'[c] = p /\ \A d \in Callers : d # c => call'[d] = call[d]
  BY <1>2, <1>4 DEF Types
<1> HIDE DEF m
<1>7. m.ind_array \in m.low .. m.high /\ m.j \in 0 .. m.high - m.half - 1 /\ m.right[m.j] \in Values
  BY <1>1, <1>5, CallFacts
<1>8. Arguments(p)
  <2>1. /\ m.low \in Int /\ m.i \in Int /\ m.j \in Int /\ m.half \in Int /\ m.high \in Int
        /\ 0 <= m.i /\ m.i <= m.half - m.low + 1 /\ 0 <= m.j /\ m.j <= m.high - m.half
        /\ m.ind_array = m.low + m.i + m.j
    BY <1>1, CallFacts
  <2>2. /\ p.left \in [0 .. p.half - p.low -> Values]
        /\ p.right \in [0 .. p.high - p.half - 1 -> Values]
        /\ 0 <= p.low /\ p.low <= p.half + 1 /\ p.half <= p.high /\ p.high <= LENGTH_ARRAY - 1
    BY <1>1, <1>3 DEF Arguments
  <2>3. /\ 0 <= p.i /\ p.i <= p.half - p.low + 1
        /\ 0 <= p.j /\ p.j <= p.high - p.half
        /\ p.ind_array = p.low + p.i + p.j
    BY <1>3, <1>5, <2>1
  <2> QED
    BY <2>2, <2>3 DEF Arguments
<1>9. m.ind_array \in Index
  BY <1>1, <1>7, CallFacts
<1>10. array' = [array EXCEPT ![m.ind_array] = m.right[m.j]]
  BY DEF TakeRight, m
<1>11. /\ array' \in [Index -> Values] /\ array'[m.ind_array] = m.right[m.j]
       /\ \A k \in Index : k # m.ind_array => array'[k] = array[k]
  BY <1>7, <1>9, <1>10 DEF Types
<1>12. UNCHANGED <<input, n, frames, inside, alive, main>>
  BY DEF TakeRight
<1>13. TakenBy(c)
  BY <1>1, <1>3, <1>6, <1>7, <1>8, <1>11, <1>12 DEF TakenBy, m
<1>14. m.i < m.half - m.low + 1 => m.left[m.i] > m.right[m.j]
  BY DEF TakeRight, LeftLeft, m
<1> QED
  BY <1>3, <1>6, <1>7, <1>11, <1>13, <1>14 DEF m

\* merge(low, half, high) has been called by c, which was not in merge.
EnteredBy(c, low, half, high) ==
  LET m == call'[c] IN
  /\ c \in Callers \ inside /\ inside' = inside \cup {c}
  /\ call' \in [Callers -> CallTypes]
  /\ \A d \in Callers : d # c => call'[d] = call[d]
  /\ m.low = low /\ m.half = half /\ m.high = high
  /\ m.i = 0 /\ m.j = 0 /\ m.ind_array = low
  /\ Arguments(m)
  /\ \A k \in 0 .. half - low : m.left[k] = array[low + k]
  /\ \A k \in 0 .. high - half - 1 : m.right[k] = array[half + 1 + k]
  /\ UNCHANGED <<input, array, n, frames, alive, main>>

LEMMA Entered ==
  ASSUME Types, NEW c \in Callers \ inside, NEW low \in Int, NEW half \in Int, NEW high \in Int,
         0 <= low, low <= half + 1, half <= high, high <= LENGTH_ARRAY - 1,
         Enter(c, low, half, high), UNCHANGED <<input, array, n, frames, alive, main>>
  PROVE  EnteredBy(c, low, half, high)
<1> DEFINE m == Opened(array, low, half, high)
<1>0. m = Opened(array, low, half, high)
  OBVIOUS
<1> HIDE DEF m
<1>1. /\ m \in CallTypes /\ Arguments(m)
      /\ m.low = low /\ m.half = half /\ m.high = high
      /\ m.i = 0 /\ m.j = 0 /\ m.ind_array = low
      /\ \A k \in 0 .. half - low : m.left[k] = array[low + k]
      /\ \A k \in 0 .. high - half - 1 : m.right[k] = array[half + 1 + k]
  BY <1>0, OpenedFits
<1>2. call' = [call EXCEPT ![c] = m] /\ inside' = inside \cup {c} /\ call \in [Callers -> CallTypes]
  BY <1>0 DEF Enter, Types
<1>3. call' \in [Callers -> CallTypes] /\ call'[c] = m /\ \A d \in Callers : d # c => call'[d] = call[d]
  BY <1>1, <1>2
<1> QED
  BY <1>1, <1>2, <1>3 DEF EnteredBy

\* The loops of c's call of merge are over, and it returns.
LeftBy(c) ==
  LET m == call[c] IN
  /\ c \in inside /\ inside' = inside \ {c}
  /\ call' \in [Callers -> CallTypes]
  /\ \A d \in Callers : d # c => call'[d] = call[d]
  /\ m \in CallTypes /\ Arguments(m) /\ m.ind_array = m.high + 1

LEMMA HasLeft ==
  ASSUME Types, Control, NEW c \in Callers, Leave(c)
  PROVE  LeftBy(c)
<1> DEFINE m == call[c]
<1>1. m \in CallTypes /\ call \in [Callers -> CallTypes]
  BY DEF Types
<1>2. c \in inside /\ Arguments(m) /\ inside' = inside \ {c} /\ call' = [call EXCEPT ![c] = NoCall]
  BY DEF Leave, Control
<1>3. ~(m.i < m.half - m.low + 1) /\ ~(m.j < m.high - m.half)
  BY DEF Leave, LeftLeft, RightLeft
<1>4. call' \in [Callers -> CallTypes] /\ \A d \in Callers : d # c => call'[d] = call[d]
  BY <1>1, <1>2, NoCallFits
<1> HIDE DEF m
<1>5. m.ind_array = m.high + 1
  BY <1>1, <1>2, <1>3, CallFacts
<1> QED
  BY <1>1, <1>2, <1>4, <1>5 DEF LeftBy, m

-----------------------------------------------------------------------------
(* What the steps of merge_sort do to the stacks.                          *)

LEMMA TopFrame ==
  ASSUME Types, NEW i \in Threads, frames[i] # <<>>
  PROVE  /\ frames[i] \in Seq(FrameTypes) /\ Len(frames[i]) \in Nat \ {0}
         /\ Len(frames[i]) \in 1 .. Len(frames[i])
         /\ Top(i) \in FrameTypes /\ Top(i).low \in Int /\ Top(i).high \in Int
         /\ Half(i) = HalfOf(Top(i)) /\ Half(i) \in Int
         /\ \A d \in 1 .. Len(frames[i]) : frames[i][d] \in FrameTypes
<1>1. frames[i] \in Seq(FrameTypes)
  BY DEF Types
<1>2. Len(frames[i]) \in Nat \ {0} /\ frames[i] \in [1 .. Len(frames[i]) -> FrameTypes]
  BY <1>1, EmptySeq, LenProperties
<1>3. Top(i) \in FrameTypes
  BY <1>2 DEF Top
<1>4. Half(i) = HalfOf(Top(i))
  BY DEF Half, HalfOf
<1>5. Top(i).low \in Int /\ Top(i).high \in Int
  BY <1>3 DEF FrameTypes
<1> QED
  BY <1>1, <1>2, <1>3, <1>4, <1>5, Halves

\* Thread i has called merge_sort(low, high) from its innermost call.
PushedBy(i, at, low, high) ==
  /\ i \in alive \ inside /\ frames[i] # <<>>
  /\ frames' \in [Threads -> Seq(FrameTypes)]
  /\ \A j \in Threads : j # i => frames'[j] = frames[j]
  /\ OneMore(frames[i], frames'[i], at, low, high)
  /\ UNCHANGED <<input, array, n, inside, call, alive, main>>

LEMMA HasPushed ==
  ASSUME Types, NEW i \in Threads, NEW at0, Sorting(i, at0), NEW at \in {"first", "second"},
         NEW low \in Int, NEW high \in Int, Calls(i, at, low, high)
  PROVE  PushedBy(i, at, low, high)
<1> DEFINE g == Append([frames[i] EXCEPT ![Len(frames[i])].at = at], Frame(low, high))
<1>0. g = Append([frames[i] EXCEPT ![Len(frames[i])].at = at], Frame(low, high))
  OBVIOUS
<1> HIDE DEF g
<1>1. frames[i] # <<>> /\ i \in alive \ inside /\ frames \in [Threads -> Seq(FrameTypes)]
  BY DEF Sorting, Types
<1>2. frames' = [frames EXCEPT ![i] = g]
  BY <1>0 DEF Calls
<1>3. frames[i] \in Seq(FrameTypes)
  BY <1>1
<1>4. OneMore(frames[i], g, at, low, high)
  BY <1>0, <1>1, <1>3, Pushed
<1>5. /\ frames' \in [Threads -> Seq(FrameTypes)] /\ frames'[i] = g
      /\ \A j \in Threads : j # i => frames'[j] = frames[j]
  BY <1>1, <1>2, <1>4 DEF OneMore
<1>6. UNCHANGED <<input, array, n, inside, call, alive, main>>
  BY DEF Calls
<1> QED
  BY <1>1, <1>4, <1>5, <1>6 DEF PushedBy

\* Thread i has returned from its innermost call.
PoppedBy(i) ==
  /\ frames[i] # <<>>
  /\ frames' \in [Threads -> Seq(FrameTypes)]
  /\ \A j \in Threads : j # i => frames'[j] = frames[j]
  /\ OneLess(frames[i], frames'[i])

LEMMA HasPopped ==
  ASSUME Types, NEW i \in Threads, frames[i] # <<>>, Returns(i)
  PROVE  PoppedBy(i)
<1> DEFINE g == SubSeq(frames[i], 1, Len(frames[i]) - 1)
<1>1. frames' = [frames EXCEPT ![i] = g] /\ frames \in [Threads -> Seq(FrameTypes)]
  BY DEF Returns, Types
<1>2. frames[i] \in Seq(FrameTypes)
  BY <1>1
<1>3. OneLess(frames[i], g)
  BY <1>2, Popped
<1> HIDE DEF g
<1>4. /\ frames' \in [Threads -> Seq(FrameTypes)] /\ frames'[i] = g
      /\ \A j \in Threads : j # i => frames'[j] = frames[j]
  BY <1>1, <1>3 DEF OneLess
<1> QED
  BY <1>3, <1>4 DEF PoppedBy

-----------------------------------------------------------------------------
(* Types.                                                                  *)

\* The innermost call of merge_sort stays in the slice.
LEMMA TopBounds ==
  ASSUME Types, Control, NEW i \in Threads, frames[i] # <<>>
  PROVE  /\ 0 <= Left(i) /\ Left(i) <= Top(i).low /\ Top(i).high <= Right(i)
         /\ Right(i) <= LENGTH_ARRAY - 1
         /\ Left(i) \in Int /\ Right(i) \in Int
         /\ Top(i).at # "start" =>
              /\ Top(i).low < Top(i).high
              /\ Top(i).low <= Half(i) /\ Half(i) < Top(i).high
<1>1. Nested(i)
  BY DEF Control
<1>2. /\ Left(i) <= Top(i).low /\ Top(i).high <= Right(i)
      /\ Top(i).at # "start" => Top(i).low < Top(i).high
  BY <1>1, TopFrame DEF Nested, Top
<1>3. Top(i).low < Top(i).high => Top(i).low <= Half(i) /\ Half(i) < Top(i).high
  BY TopFrame, Halves
<1> QED
  BY <1>2, <1>3, SliceFacts

LEMMA MergeHalvesEffect ==
  ASSUME Types, Control, NEW i \in Threads, MergeHalves(i)
  PROVE  EnteredBy(i, Top(i).low, Half(i), Top(i).high)
<1>1. i \in alive \ inside /\ frames[i] # <<>> /\ Top(i).at = "second"
  BY DEF MergeHalves, Sorting
<1>2. i \in Callers \ inside
  BY <1>1 DEF Callers
<1>3. Top(i).low \in Int /\ Top(i).high \in Int /\ Half(i) \in Int
  BY <1>1, TopFrame
<1>4. /\ 0 <= Top(i).low /\ Top(i).low <= Half(i) + 1 /\ Half(i) <= Top(i).high
      /\ Top(i).high <= LENGTH_ARRAY - 1
  <2>1. LENGTH_ARRAY \in Int
    BY DEF Types
  <2> QED
    BY <1>1, <1>3, <2>1, TopBounds
<1>5. Enter(i, Top(i).low, Half(i), Top(i).high) /\ UNCHANGED <<input, array, n, frames, alive, main>>
  BY DEF MergeHalves
<1> QED
  BY <1>2, <1>3, <1>4, <1>5, Entered

LEMMA MergeSliceEffect ==
  ASSUME Types, Control, NEW i \in Threads, MergeSlice(i)
  PROVE  EnteredBy(Main, Left(0), Left(i) - 1, Right(i))
<1>1. Main \in Callers \ inside /\ LENGTH_ARRAY \in Int
  BY DEF MergeSlice, Callers, Types
<1>2. /\ Left(0) = 0 /\ Left(i) \in Int /\ Right(i) \in Int
      /\ 0 <= Left(i) /\ Left(i) <= Right(i) + 1 /\ Right(i) <= LENGTH_ARRAY - 1
  BY SliceFacts
<1>3. /\ Left(0) \in Int /\ Left(i) - 1 \in Int
      /\ 0 <= Left(0) /\ Left(0) <= Left(i) - 1 + 1 /\ Left(i) - 1 <= Right(i)
  BY <1>2
<1>4. Enter(Main, Left(0), Left(i) - 1, Right(i)) /\ UNCHANGED <<input, array, n, frames, alive, main>>
  BY DEF MergeSlice
<1> QED
  BY <1>1, <1>2, <1>3, <1>4, Entered

LEMMA SortFirstEffect ==
  ASSUME Types, NEW i \in Threads, SortFirst(i)
  PROVE  PushedBy(i, "first", Top(i).low, Half(i))
<1>1. Sorting(i, "start") /\ Calls(i, "first", Top(i).low, Half(i)) /\ frames[i] # <<>>
  BY DEF SortFirst, Sorting
<1>2. Top(i).low \in Int /\ Half(i) \in Int
  BY <1>1, TopFrame
<1> QED
  BY <1>1, <1>2, HasPushed

LEMMA SortSecondEffect ==
  ASSUME Types, NEW i \in Threads, SortSecond(i)
  PROVE  PushedBy(i, "second", Half(i) + 1, Top(i).high)
<1>1. Sorting(i, "first") /\ Calls(i, "second", Half(i) + 1, Top(i).high) /\ frames[i] # <<>>
  BY DEF SortSecond, Sorting
<1>2. Top(i).high \in Int /\ Half(i) + 1 \in Int
  BY <1>1, TopFrame
<1> QED
  BY <1>1, <1>2, HasPushed

LEMMA SortNoneEffect ==
  ASSUME Types, NEW i \in Threads, SortNone(i)
  PROVE  /\ PoppedBy(i) /\ i \in alive \ inside
         /\ UNCHANGED <<input, array, n, inside, call, alive, main>>
  BY HasPopped DEF SortNone, Sorting

LEMMA HalvesMergedEffect ==
  ASSUME Types, Control, NEW i \in Threads, HalvesMerged(i)
  PROVE  /\ LeftBy(i) /\ PoppedBy(i)
         /\ i \in alive /\ Top(i).at = "second"
         /\ call[i].low = Top(i).low /\ call[i].half = Half(i) /\ call[i].high = Top(i).high
         /\ UNCHANGED <<input, array, n, alive, main>>
<1>1. i \in Callers /\ i \in inside
  BY DEF HalvesMerged, Leave, Callers
<1>2. /\ i \in alive /\ frames[i] # <<>> /\ Top(i).at = "second"
      /\ call[i].low = Top(i).low /\ call[i].half = Half(i) /\ call[i].high = Top(i).high
  BY <1>1 DEF Control, InMerge
<1> QED
  BY <1>1, <1>2, HasLeft, HasPopped DEF HalvesMerged

LEMMA SliceMergedEffect ==
  ASSUME Types, Control, NEW i \in Threads, SliceMerged(i)
  PROVE  /\ LeftBy(Main) /\ main = <<"merge", i>> /\ main' = <<"merge", i + 1>> /\ i < n
         /\ call[Main].low = Left(0) /\ call[Main].half = Left(i) - 1 /\ call[Main].high = Right(i)
         /\ UNCHANGED <<input, array, n, frames, alive>>
<1>1. Main \in Callers /\ Main \in inside /\ main = <<"merge", i>>
  BY DEF SliceMerged, Leave, Callers
<1>2. /\ main[2] = i /\ main[2] < n
      /\ call[Main].low = Left(0) /\ call[Main].half = Left(i) - 1 /\ call[Main].high = Right(i)
  BY <1>1 DEF Control, MainInMerge
<1> QED
  BY <1>1, <1>2, HasLeft DEF SliceMerged

LEMMA Turns ==
  ASSUME Types, NEW i \in Threads, NEW phase, NEW next, NEW first, NextTurn(phase, i, next, first)
  PROVE  \/ main' = <<phase, i + 1>> /\ i + 1 \in Threads
         \/ main' = <<next, first>> /\ i = n - 1
<1>1. n \in Nat /\ i \in Nat /\ i < n
  BY DEF Threads, Types
<1>2. CASE i + 1 < n
  BY <1>1, <1>2 DEF NextTurn, Threads
<1>3. CASE ~(i + 1 < n)
  BY <1>1, <1>3 DEF NextTurn
<1> QED
  BY <1>2, <1>3

LEMMA TypesInit == Init => Types
<1> SUFFICES ASSUME Init PROVE Types
  OBVIOUS
<1>1. PICK len \in 0 .. MAXLENGTH : input \in [0 .. len - 1 -> Values]
  BY DEF Init
<1>2. len \in Nat /\ Cardinality(0 .. len - 1) = len
  <2>1. len \in Nat /\ 0 \in Int /\ len - 1 \in Int
    BY BoundsAssumption
  <2>2. Cardinality(0 .. len - 1) = IF 0 > len - 1 THEN 0 ELSE len - 1 - 0 + 1
    BY <2>1, FS_Interval
  <2> QED
    BY <2>1, <2>2
<1>3. LENGTH_ARRAY = len
  BY <1>1, <1>2 DEF LENGTH_ARRAY
<1>4. input \in [Index -> Values] /\ array = input
  BY <1>1, <1>3 DEF Init, Index
<1>5. n \in Nat \ {0}
  BY BoundsAssumption DEF Init
<1>6. frames \in [Threads -> Seq(FrameTypes)]
  BY EmptySeq DEF Init
<1>7. call \in [Callers -> CallTypes]
  BY NoCallFits DEF Init
<1>8. inside = {} /\ alive = {} /\ main = <<"create", 0>>
  BY DEF Init
<1>9. 0 \in Threads
  BY <1>5 DEF Threads
<1> QED
  BY <1>2, <1>3, <1>4, <1>5, <1>6, <1>7, <1>8, <1>9 DEF Types

LEMMA TypesNext ==
  ASSUME Types, Control, [Next]_vars
  PROVE  Types'
<1>1. UNCHANGED <<input, n>>
  BY DEF Next, MainStep, ThreadStep, Take, TakeLeft, TakeRight, Create, Join, MergeSlice, SliceMerged,
     SortFirst, SortNone, SortSecond, MergeHalves, HalvesMerged, Finish, Calls, vars
<1>2. Index' = Index /\ Threads' = Threads /\ Callers' = Callers /\ LENGTH_ARRAY' = LENGTH_ARRAY
  BY <1>1, Fixed
<1> DEFINE R == /\ array' \in [Index -> Values]
                /\ frames' \in [Threads -> Seq(FrameTypes)]
                /\ inside' \subseteq Callers
                /\ call' \in [Callers -> CallTypes]
                /\ alive' \subseteq Threads
                /\ main' \in ({"create", "join"} \X Threads) \cup ({"merge"} \X (1 .. n))
<1>3. R => Types'
  <2>1. /\ LENGTH_ARRAY \in Nat /\ input \in [Index -> Values] /\ n \in Nat \ {0}
    BY DEF Types
  <2>2. /\ LENGTH_ARRAY' \in Nat /\ input' \in [Index' -> Values] /\ n' \in Nat \ {0}
    BY <1>1, <1>2, <2>1
  <2> SUFFICES ASSUME R PROVE Types'
    OBVIOUS
  <2>3. /\ array' \in [Index' -> Values] /\ inside' \subseteq Callers' /\ alive' \subseteq Threads'
    BY <1>2
  <2>4. frames' \in [Threads' -> Seq(FrameTypes)]
    BY <1>2
  <2>5. call' \in [Callers' -> CallTypes]
    BY <1>2
  <2>6. main' \in ({"create", "join"} \X Threads') \cup ({"merge"} \X (1 .. n'))
    BY <1>1, <1>2
  <2> QED
    BY <2>2, <2>3, <2>4, <2>5, <2>6 DEF Types
<1>4. ASSUME UNCHANGED vars PROVE R
  BY <1>4 DEF R, Types, vars
<1>5. ASSUME NEW c \in Callers, Take(c) PROVE R
  <2>1. TakenBy(c)
    BY <1>5, TakenLeft, TakenRight DEF Take
  <2> QED
    BY <2>1 DEF TakenBy, Types
<1>6. ASSUME NEW i \in Threads, SortFirst(i) \/ SortSecond(i) PROVE R
  <2>1. /\ frames' \in [Threads -> Seq(FrameTypes)]
        /\ UNCHANGED <<input, array, n, inside, call, alive, main>>
    BY <1>6, SortFirstEffect, SortSecondEffect DEF PushedBy
  <2> QED
    BY <2>1 DEF Types
<1>7. ASSUME NEW i \in Threads, SortNone(i) PROVE R
  BY <1>7, SortNoneEffect DEF PoppedBy, Types
<1>8. ASSUME NEW i \in Threads, HalvesMerged(i) PROVE R
  BY <1>8, HalvesMergedEffect DEF PoppedBy, LeftBy, Types
<1>9. ASSUME NEW i \in Threads, MergeHalves(i) PROVE R
  BY <1>9, MergeHalvesEffect DEF EnteredBy, Types
<1>10. ASSUME NEW i \in Threads, MergeSlice(i) PROVE R
  BY <1>10, MergeSliceEffect DEF EnteredBy, Types
<1>11. ASSUME NEW i \in Threads, SliceMerged(i) PROVE R
  <2>1. i + 1 \in 1 .. n
    BY DEF Threads, Types
  <2> QED
    BY <1>11, <2>1, SliceMergedEffect DEF LeftBy, Types
<1>12. ASSUME NEW i \in Threads, Finish(i) PROVE R
  BY <1>12 DEF Finish, Types
<1>13. 0 \in Threads /\ 1 \in 1 .. n
  BY DEF Threads, Types
<1>14. ASSUME NEW i \in Threads, Create(i) PROVE R
  <2>1. (main' = <<"create", i + 1>> /\ i + 1 \in Threads) \/ main' = <<"join", 0>>
    BY <1>14, Turns DEF Create
  <2>2. Frame(Left(i), Right(i)) \in FrameTypes
    BY SliceFacts DEF Frame, FrameTypes
  <2>3. <<Frame(Left(i), Right(i))>> \in Seq(FrameTypes)
    BY <2>2
  <2> QED
    BY <1>13, <1>14, <2>1, <2>3 DEF Create, Types
<1>15. ASSUME NEW i \in Threads, Join(i) PROVE R
  <2>1. (main' = <<"join", i + 1>> /\ i + 1 \in Threads) \/ main' = <<"merge", 1>>
    BY <1>15, Turns DEF Join
  <2> QED
    BY <1>13, <1>15, <2>1 DEF Join, Types
<1>16. Main \in Callers /\ Threads \subseteq Callers
  BY DEF Callers
<1> HIDE DEF R
<1>17. ASSUME NEW i \in Threads, ThreadStep(i) PROVE R
  BY <1>5, <1>6, <1>7, <1>8, <1>9, <1>12, <1>16, <1>17 DEF ThreadStep
<1>18. MainStep => R
  BY <1>5, <1>10, <1>11, <1>14, <1>15, <1>16 DEF MainStep
<1> QED
  BY <1>3, <1>4, <1>17, <1>18 DEF Next

-----------------------------------------------------------------------------
(* Control: who is where.                                                  *)

LEMMA NestedSame ==
  ASSUME UNCHANGED <<input, n>>, NEW i, frames'[i] = frames[i], Nested(i)
  PROVE  Nested(i)'
  BY Fixed DEF Nested, CalledLow, CalledHigh, HalfOf

LEMMA NestedPushed ==
  ASSUME Types, Control, NEW i \in Threads, NEW at \in {"first", "second"}, NEW low, NEW high,
         PushedBy(i, at, low, high), Top(i).low < Top(i).high,
         at = "first" => low = Top(i).low /\ high = Half(i),
         at = "second" => low = Half(i) + 1 /\ high = Top(i).high
  PROVE  Nested(i)'
<1> DEFINE f == frames[i]
           g == frames'[i]
           len == Len(frames[i])
<1>1. f # <<>> /\ OneMore(f, g, at, low, high) /\ UNCHANGED <<input, n>>
  BY DEF PushedBy
<1>2. /\ g # <<>> /\ len \in Nat \ {0} /\ Len(g) = len + 1
      /\ \A d \in 1 .. len - 1 : g[d] = f[d]
      /\ g[len].low = f[len].low /\ g[len].high = f[len].high /\ g[len].at = at
      /\ g[len + 1].low = low /\ g[len + 1].high = high /\ g[len + 1].at = "start"
  BY <1>1 DEF OneMore
<1>3. /\ f[len].low = Top(i).low /\ f[len].high = Top(i).high /\ HalfOf(f[len]) = Half(i)
      /\ Top(i).low \in Int /\ Top(i).high \in Int /\ Half(i) \in Int
      /\ Top(i).low <= Half(i) /\ Half(i) < Top(i).high
  BY <1>1, TopFrame, Halves DEF Top
<1>4. /\ f[1].low = Left(i) /\ f[1].high = Right(i)
      /\ \A d \in 1 .. len :
           /\ Left(i) <= f[d].low /\ f[d].high <= Right(i)
           /\ f[d].at # "start" => f[d].low < f[d].high
           /\ d < len =>
                /\ f[d].at # "start"
                /\ f[d + 1].low = CalledLow(f[d]) /\ f[d + 1].high = CalledHigh(f[d])
      /\ \A d, e \in 1 .. len :
           d < e => CalledLow(f[d]) <= f[e].low /\ f[e].high <= CalledHigh(f[d])
  BY <1>1 DEF Control, Nested
<1>5. /\ Left(i) \in Int /\ Right(i) \in Int
      /\ \A d \in 1 .. len :
           /\ f[d].low \in Int /\ f[d].high \in Int /\ HalfOf(f[d]) \in Int
           /\ CalledLow(f[d]) \in Int /\ CalledHigh(f[d]) \in Int
  <2>1. ASSUME NEW d \in 1 .. len
        PROVE  /\ f[d].low \in Int /\ f[d].high \in Int /\ HalfOf(f[d]) \in Int
    <3>1. f[d] \in FrameTypes
      BY <1>1, TopFrame
    <3> QED
      BY <3>1, Halves DEF FrameTypes
  <2> QED
    BY <2>1, SliceFacts DEF CalledLow, CalledHigh
<1>6. /\ HalfOf(g[len]) = Half(i)
      /\ low = CalledLow(g[len]) /\ high = CalledHigh(g[len])
      /\ low \in Int /\ high \in Int
      /\ Top(i).low <= low /\ high <= Top(i).high
  <2>1. HalfOf(g[len]) = Half(i)
    BY <1>2, <1>3 DEF HalfOf
  <2>2. CASE at = "first"
    BY <1>2, <1>3, <2>1, <2>2 DEF CalledLow, CalledHigh
  <2>3. CASE at = "second"
    BY <1>2, <1>3, <2>1, <2>3 DEF CalledLow, CalledHigh
  <2> QED
    BY <2>1, <2>2, <2>3
<1> HIDE DEF f, g, len
<1>7. g[1].low = Left(i) /\ g[1].high = Right(i)
  <2>1. CASE len = 1
    BY <1>2, <1>4, <2>1
  <2>2. CASE len > 1
    BY <1>2, <1>4, <2>2
  <2> QED
    BY <1>2, <2>1, <2>2
<1>8. ASSUME NEW d \in 1 .. len + 1
      PROVE  /\ Left(i) <= g[d].low /\ g[d].high <= Right(i)
             /\ g[d].at # "start" => g[d].low < g[d].high
             /\ d < len + 1 =>
                  /\ g[d].at # "start"
                  /\ g[d + 1].low = CalledLow(g[d]) /\ g[d + 1].high = CalledHigh(g[d])
  <2>0. len \in Nat \ {0} /\ len \in 1 .. len
    BY <1>2
  <2>1. CASE d = len + 1
    BY <1>2, <1>3, <1>4, <1>5, <1>6, <2>0, <2>1
  <2>2. CASE d = len
    BY <1>2, <1>3, <1>4, <1>5, <1>6, <2>0, <2>2
  <2>3. CASE d = len - 1
    <3>1. d \in 1 .. len /\ d < len /\ g[d] = f[d] /\ d + 1 = len
      BY <1>2, <2>3
    <3> QED
      BY <1>2, <1>4, <3>1
  <2>4. CASE d < len - 1
    <3>1. d \in 1 .. len /\ d < len /\ g[d] = f[d] /\ g[d + 1] = f[d + 1]
      BY <1>2, <2>4
    <3> QED
      BY <1>2, <1>4, <3>1
  <2> QED
    BY <2>0, <2>1, <2>2, <2>3, <2>4
<1>9. ASSUME NEW d \in 1 .. len + 1, NEW e \in 1 .. len + 1, d < e
      PROVE  CalledLow(g[d]) <= g[e].low /\ g[e].high <= CalledHigh(g[d])
  <2>1. len \in Nat \ {0} /\ len \in 1 .. len /\ d \in 1 .. len
    BY <1>2, <1>9
  <2>2. CASE d = len
    <3>1. e = len + 1
      BY <1>9, <2>1, <2>2
    <3> QED
      BY <1>2, <1>6, <2>2, <3>1
  <2>3. CASE d < len /\ e = len + 1
    <3>1. g[d] = f[d] /\ CalledLow(f[d]) <= f[len].low /\ f[len].high <= CalledHigh(f[d])
      BY <1>2, <1>4, <2>1, <2>3
    <3> QED
      BY <1>2, <1>3, <1>5, <1>6, <2>1, <2>3, <3>1
  <2>4. CASE d < len /\ e # len + 1
    <3>1. g[d] = f[d] /\ g[e].low = f[e].low /\ g[e].high = f[e].high /\ e \in 1 .. len
      BY <1>2, <2>1, <2>4
    <3> QED
      BY <1>4, <1>9, <2>1, <3>1
  <2> QED
    BY <2>1, <2>2, <2>3, <2>4
<1>10. Left(i)' = Left(i) /\ Right(i)' = Right(i)
  BY <1>1, Fixed
<1>11. Len(g) = len + 1
  BY <1>2
<1> QED
  BY <1>7, <1>8, <1>9, <1>10, <1>11 DEF Nested, g, CalledLow, CalledHigh, HalfOf

LEMMA NestedPopped ==
  ASSUME Types, Control, NEW i \in Threads, PoppedBy(i), UNCHANGED <<input, n>>
  PROVE  Nested(i)'
<1> DEFINE f == frames[i]
           g == frames'[i]
           len == Len(frames[i])
<1>1. /\ len \in Nat \ {0} /\ Len(g) = len - 1 /\ (g # <<>> <=> len > 1)
      /\ \A d \in 1 .. len - 1 : g[d] = f[d]
      /\ f # <<>>
  BY DEF PoppedBy, OneLess
<1>2. /\ f[1].low = Left(i) /\ f[1].high = Right(i)
      /\ \A d \in 1 .. len :
           /\ Left(i) <= f[d].low /\ f[d].high <= Right(i)
           /\ f[d].at # "start" => f[d].low < f[d].high
           /\ d < len =>
                /\ f[d].at # "start"
                /\ f[d + 1].low = CalledLow(f[d]) /\ f[d + 1].high = CalledHigh(f[d])
      /\ \A d, e \in 1 .. len :
           d < e => CalledLow(f[d]) <= f[e].low /\ f[e].high <= CalledHigh(f[d])
  BY <1>1 DEF Control, Nested
<1> HIDE DEF f, g, len
<1>3. g # <<>> => g[1].low = Left(i) /\ g[1].high = Right(i)
  BY <1>1, <1>2
<1>4. \A d \in 1 .. len - 1 :
        /\ Left(i) <= g[d].low /\ g[d].high <= Right(i)
        /\ g[d].at # "start" => g[d].low < g[d].high
        /\ d < len - 1 =>
             /\ g[d].at # "start"
             /\ g[d + 1].low = CalledLow(g[d]) /\ g[d + 1].high = CalledHigh(g[d])
  BY <1>1, <1>2
<1>5. \A d, e \in 1 .. len - 1 :
        d < e => CalledLow(g[d]) <= g[e].low /\ g[e].high <= CalledHigh(g[d])
  BY <1>1, <1>2
<1>6. Left(i)' = Left(i) /\ Right(i)' = Right(i)
  BY Fixed
<1> QED
  BY <1>1, <1>3, <1>4, <1>5, <1>6 DEF Nested, g, CalledLow, CalledHigh, HalfOf

\* The fields of a call of merge that stay as they are.
SameCall(c) ==
  call'[c].low = call[c].low /\ call'[c].half = call[c].half /\ call'[c].high = call[c].high

LEMMA InMergeSame ==
  ASSUME NEW i, i \in alive', frames'[i] = frames[i], SameCall(i), InMerge(i)
  PROVE  InMerge(i)'
  BY DEF InMerge, SameCall, Top, Half

LEMMA MainInMergeSame ==
  ASSUME UNCHANGED <<input, n, main>>, SameCall(Main), MainInMerge
  PROVE  MainInMerge'
  BY Fixed DEF MainInMerge, SameCall, Main

LEMMA ControlFrom ==
  ASSUME UNCHANGED <<input, n>>,
         \A i \in Threads : Nested(i)',
         \A i \in Threads : i \notin alive' => frames'[i] = <<>>,
         \A i \in alive' : Created(i)' /\ (main'[1] = "join" => i >= main'[2]),
         main'[1] = "merge" => alive' = {},
         \A i \in Threads \cap inside' : InMerge(i)',
         Main \in inside' => MainInMerge',
         \A c \in inside' : Arguments(call'[c])
  PROVE  Control'
<1>1. Threads' = Threads /\ LENGTH_ARRAY' = LENGTH_ARRAY
  BY Fixed
<1>2. \A c \in inside' : Arguments(call[c])'
  BY <1>1 DEF Arguments
<1> QED
  BY <1>1, <1>2 DEF Control, Main

LEMMA ControlInit == Init => Control
<1> SUFFICES ASSUME Init PROVE Control
  OBVIOUS
<1>1. frames = [i \in Threads |-> <<>>] /\ alive = {} /\ inside = {} /\ main = <<"create", 0>>
  BY DEF Init
<1>2. \A i \in Threads : Nested(i)
  <2> TAKE i \in Threads
  <2>1. frames[i] = <<>> /\ Len(frames[i]) = 0
    BY <1>1
  <2> QED
    BY <2>1 DEF Nested
<1> QED
  BY <1>1, <1>2 DEF Control

\* A step of merge's loops.
LEMMA ControlTaken ==
  ASSUME Types, Control, NEW c \in Callers, TakenBy(c)
  PROVE  Control'
<1>1. /\ UNCHANGED <<input, n, frames, inside, alive, main>>
      /\ c \in inside /\ Arguments(call'[c])
      /\ \A d \in Callers : d # c => call'[d] = call[d]
      /\ SameCall(c)
  BY DEF TakenBy, SameCall
<1>2. \A d \in Callers : SameCall(d)
  BY <1>1 DEF SameCall
<1>3. \A i \in Threads : Nested(i)'
  BY <1>1, NestedSame DEF Control
<1>4. \A i \in Threads \cap inside' : InMerge(i)'
  <2> TAKE i \in Threads \cap inside'
  <2>1. InMerge(i) /\ i \in Callers
    BY <1>1 DEF Control, Callers
  <2>2. i \in alive' /\ frames'[i] = frames[i] /\ SameCall(i)
    BY <1>1, <1>2, <2>1 DEF InMerge
  <2> QED
    BY <2>1, <2>2, InMergeSame
<1>5. Main \in inside' => MainInMerge'
  <2>1. Main \in Callers
    BY DEF Callers
  <2> QED
    BY <1>1, <1>2, <2>1, MainInMergeSame DEF Control
<1>6. \A d \in inside' : Arguments(call'[d])
  <2> TAKE d \in inside'
  <2>1. d \in inside /\ d \in Callers
    BY <1>1 DEF Types
  <2> QED
    BY <1>1, <2>1 DEF Control
<1>7. \A i \in alive' : Created(i)' /\ (main'[1] = "join" => i >= main'[2])
  BY <1>1 DEF Control, Created
<1>8. \A i \in Threads : i \notin alive' => frames'[i] = <<>>
  BY <1>1 DEF Control
<1>9. main'[1] = "merge" => alive' = {}
  BY <1>1 DEF Control
<1> QED
  BY <1>1, <1>3, <1>4, <1>5, <1>6, <1>7, <1>8, <1>9, ControlFrom

\* A call of merge_sort more.
LEMMA ControlPushed ==
  ASSUME Types, Control, NEW i \in Threads, NEW at, NEW low, NEW high,
         PushedBy(i, at, low, high), Nested(i)'
  PROVE  Control'
<1>1. /\ UNCHANGED <<input, array, n, inside, call, alive, main>>
      /\ i \in alive \ inside
      /\ \A j \in Threads : j # i => frames'[j] = frames[j]
  BY DEF PushedBy
<1>2. \A c : SameCall(c)
  BY <1>1 DEF SameCall
<1>3. \A j \in Threads : Nested(j)'
  BY <1>1, NestedSame DEF Control
<1>4. \A j \in Threads \cap inside' : InMerge(j)'
  <2> TAKE j \in Threads \cap inside'
  <2>1. InMerge(j) /\ j # i
    BY <1>1 DEF Control
  <2>2. j \in alive' /\ frames'[j] = frames[j]
    BY <1>1, <2>1 DEF InMerge
  <2> QED
    BY <1>2, <2>1, <2>2, InMergeSame
<1>5. Main \in inside' => MainInMerge'
  BY <1>1, <1>2, MainInMergeSame DEF Control
<1>6. \A d \in inside' : Arguments(call'[d])
  BY <1>1 DEF Control
<1>7. \A j \in alive' : Created(j)' /\ (main'[1] = "join" => j >= main'[2])
  BY <1>1 DEF Control, Created
<1>8. \A j \in Threads : j \notin alive' => frames'[j] = <<>>
  BY <1>1 DEF Control
<1>9. main'[1] = "merge" => alive' = {}
  BY <1>1 DEF Control
<1> QED
  BY <1>1, <1>3, <1>4, <1>5, <1>6, <1>7, <1>8, <1>9, ControlFrom

\* A call of merge_sort less; the thread may leave a call of merge with it.
LEMMA ControlPopped ==
  ASSUME Types, Control, NEW i \in Threads, PoppedBy(i), i \in alive,
         UNCHANGED <<input, array, n, alive, main>>,
         i \notin inside', inside' \subseteq inside,
         \A d \in Callers : d # i => call'[d] = call[d]
  PROVE  Control'
<1>1. \A j \in Threads : j # i => frames'[j] = frames[j]
  BY DEF PoppedBy
<1>2. \A d \in Callers : d # i => SameCall(d)
  BY DEF SameCall
<1>3. \A j \in Threads : Nested(j)'
  BY <1>1, NestedSame, NestedPopped DEF Control
<1>4. \A j \in Threads \cap inside' : InMerge(j)'
  <2> TAKE j \in Threads \cap inside'
  <2>1. InMerge(j) /\ j # i /\ j \in Callers
    BY DEF Control, Callers
  <2>2. j \in alive' /\ frames'[j] = frames[j]
    BY <1>1, <2>1 DEF InMerge
  <2> QED
    BY <1>2, <2>1, <2>2, InMergeSame
<1>5. Main \in inside' => MainInMerge'
  <2>1. Main \in Callers /\ Main # i
    BY DEF Callers, Main, Threads
  <2> QED
    BY <1>2, <2>1, MainInMergeSame DEF Control
<1>6. \A d \in inside' : Arguments(call'[d])
  <2> TAKE d \in inside'
  <2>1. d \in inside /\ d \in Callers /\ d # i
    BY DEF Types
  <2> QED
    BY <2>1 DEF Control
<1>7. \A j \in alive' : Created(j)' /\ (main'[1] = "join" => j >= main'[2])
  BY DEF Control, Created
<1>8. \A j \in Threads : j \notin alive' => frames'[j] = <<>>
  BY <1>1 DEF Control
<1>9. main'[1] = "merge" => alive' = {}
  BY DEF Control
<1> QED
  BY <1>3, <1>4, <1>5, <1>6, <1>7, <1>8, <1>9, ControlFrom

\* A call of merge begins.
LEMMA ControlEntered ==
  ASSUME Types, Control, NEW c \in Callers, NEW low, NEW half, NEW high, EnteredBy(c, low, half, high),
         c \in Threads => InMerge(c)', c = Main => MainInMerge'
  PROVE  Control'
<1>1. /\ UNCHANGED <<input, array, n, frames, alive, main>>
      /\ c \notin inside /\ inside' = inside \cup {c}
      /\ \A d \in Callers : d # c => call'[d] = call[d]
      /\ Arguments(call'[c])
  BY DEF EnteredBy
<1>2. \A d \in Callers : d # c => SameCall(d)
  BY <1>1 DEF SameCall
<1>3. \A i \in Threads : Nested(i)'
  BY <1>1, NestedSame DEF Control
<1>4. \A i \in Threads \cap inside' : InMerge(i)'
  <2> TAKE i \in Threads \cap inside'
  <2>1. CASE i = c
    BY <2>1
  <2>2. CASE i # c
    <3>1. InMerge(i) /\ i \in Callers
      BY <1>1, <2>2 DEF Control, Callers
    <3>2. i \in alive' /\ frames'[i] = frames[i]
      BY <1>1, <3>1 DEF InMerge
    <3> QED
      BY <1>2, <2>2, <3>1, <3>2, InMergeSame
  <2> QED
    BY <2>1, <2>2
<1>5. Main \in inside' => MainInMerge'
  <2>1. Main \in Callers
    BY DEF Callers
  <2> QED
    BY <1>1, <1>2, <2>1, MainInMergeSame DEF Control
<1>6. \A d \in inside' : Arguments(call'[d])
  <2> TAKE d \in inside'
  <2>1. d = c \/ (d \in inside /\ d \in Callers /\ d # c)
    BY <1>1 DEF Types
  <2> QED
    BY <1>1, <2>1 DEF Control
<1>7. \A j \in alive' : Created(j)' /\ (main'[1] = "join" => j >= main'[2])
  BY <1>1 DEF Control, Created
<1>8. \A j \in Threads : j \notin alive' => frames'[j] = <<>>
  BY <1>1 DEF Control
<1>9. main'[1] = "merge" => alive' = {}
  BY <1>1 DEF Control
<1> QED
  BY <1>1, <1>3, <1>4, <1>5, <1>6, <1>7, <1>8, <1>9, ControlFrom

LEMMA ControlCreate ==
  ASSUME Types, Control, NEW i \in Threads, Create(i)
  PROVE  Control'
<1> DEFINE f == <<Frame(Left(i), Right(i))>>
<1>1. /\ UNCHANGED <<input, array, n, inside, call>>
      /\ main[1] = "create" /\ main[2] = i /\ alive' = alive \cup {i}
      /\ frames' = [frames EXCEPT ![i] = f]
      /\ frames \in [Threads -> Seq(FrameTypes)]
  BY DEF Create, Types
<1>2. frames'[i] = f /\ \A j \in Threads : j # i => frames'[j] = frames[j]
  BY <1>1
<1>3. i \notin alive
  BY <1>1 DEF Control, Created, Threads
<1>4. Nested(i)'
  <2>1. Len(f) = 1 /\ f[1].low = Left(i) /\ f[1].high = Right(i) /\ f[1].at = "start"
    BY DEF Frame
  <2>2. Left(i) \in Int /\ Right(i) \in Int
    BY SliceFacts
  <2>3. Left(i)' = Left(i) /\ Right(i)' = Right(i)
    BY <1>1, Fixed
  <2> HIDE DEF f
  <2> QED
    BY <1>2, <2>1, <2>2, <2>3 DEF Nested
<1>5. \A j \in Threads : Nested(j)'
  BY <1>1, <1>2, <1>4, NestedSame DEF Control
<1>6. \A c : SameCall(c)
  BY <1>1 DEF SameCall
<1>7. \A j \in Threads \cap inside' : InMerge(j)'
  <2> TAKE j \in Threads \cap inside'
  <2>1. InMerge(j)
    BY <1>1 DEF Control
  <2>2. j \in alive /\ j # i
    BY <1>3, <2>1 DEF InMerge
  <2> QED
    BY <1>1, <1>2, <1>6, <2>1, <2>2, InMergeSame
<1>8. Main \notin inside'
  BY <1>1 DEF Control, MainInMerge
<1>9. \A d \in inside' : Arguments(call'[d])
  BY <1>1 DEF Control
<1>10. \/ main' = <<"create", i + 1>> /\ i + 1 \in Threads
       \/ main' = <<"join", 0>>
  BY Turns DEF Create
<1>11. \A j \in alive' : Created(j)' /\ (main'[1] = "join" => j >= main'[2])
  <2> TAKE j \in alive'
  <2>1. j \in Nat /\ j <= i /\ i \in Nat
    BY <1>1 DEF Control, Created, Threads, Types
  <2> QED
    BY <1>10, <2>1 DEF Created
<1>12. \A j \in Threads : j \notin alive' => frames'[j] = <<>>
  BY <1>1, <1>2 DEF Control
<1>13. main'[1] # "merge"
  BY <1>10
<1> QED
  BY <1>1, <1>5, <1>7, <1>8, <1>9, <1>11, <1>12, <1>13, ControlFrom

LEMMA ControlJoin ==
  ASSUME Types, Control, NEW i \in Threads, Join(i)
  PROVE  Control'
<1>1. /\ UNCHANGED <<input, array, n, frames, inside, call, alive>>
      /\ main[1] = "join" /\ main[2] = i /\ i \notin alive
  BY DEF Join
<1>2. \A j \in Threads : Nested(j)'
  BY <1>1, NestedSame DEF Control
<1>3. \A c : SameCall(c)
  BY <1>1 DEF SameCall
<1>4. \A j \in Threads \cap inside' : InMerge(j)'
  <2> TAKE j \in Threads \cap inside'
  <2>1. InMerge(j)
    BY <1>1 DEF Control
  <2> QED
    BY <1>1, <1>3, <2>1, InMergeSame DEF InMerge
<1>5. Main \notin inside'
  BY <1>1 DEF Control, MainInMerge
<1>6. \A d \in inside' : Arguments(call'[d])
  BY <1>1 DEF Control
<1>7. \/ main' = <<"join", i + 1>> /\ i + 1 \in Threads
      \/ main' = <<"merge", 1>> /\ i = n - 1
  BY Turns DEF Join
<1>8. \A j \in alive : j \in Nat /\ j > i /\ j < n /\ i \in Nat /\ n \in Nat
  BY <1>1 DEF Control, Threads, Types
<1>9. \A j \in alive' : Created(j)' /\ (main'[1] = "join" => j >= main'[2])
  BY <1>1, <1>7, <1>8 DEF Created
<1>10. \A j \in Threads : j \notin alive' => frames'[j] = <<>>
  BY <1>1 DEF Control
<1>11. main'[1] = "merge" => alive' = {}
  BY <1>1, <1>7, <1>8
<1> QED
  BY <1>1, <1>2, <1>4, <1>5, <1>6, <1>9, <1>10, <1>11, ControlFrom

LEMMA ControlFinish ==
  ASSUME Types, Control, NEW i \in Threads, Finish(i)
  PROVE  Control'
<1>1. /\ UNCHANGED <<input, array, n, frames, inside, call, main>>
      /\ frames[i] = <<>> /\ alive' = alive \ {i}
  BY DEF Finish
<1>2. \A j \in Threads : Nested(j)'
  BY <1>1, NestedSame DEF Control
<1>3. \A c : SameCall(c)
  BY <1>1 DEF SameCall
<1>4. \A j \in Threads \cap inside' : InMerge(j)'
  <2> TAKE j \in Threads \cap inside'
  <2>1. InMerge(j)
    BY <1>1 DEF Control
  <2>2. j \in alive'
    BY <1>1, <2>1 DEF InMerge
  <2> QED
    BY <1>1, <1>3, <2>1, <2>2, InMergeSame
<1>5. Main \in inside' => MainInMerge'
  BY <1>1, <1>3, MainInMergeSame DEF Control
<1>6. \A d \in inside' : Arguments(call'[d])
  BY <1>1 DEF Control
<1>7. \A j \in alive' : Created(j)' /\ (main'[1] = "join" => j >= main'[2])
  BY <1>1 DEF Control, Created
<1>8. \A j \in Threads : j \notin alive' => frames'[j] = <<>>
  BY <1>1 DEF Control
<1>9. main'[1] = "merge" => alive' = {}
  BY <1>1 DEF Control
<1> QED
  BY <1>1, <1>2, <1>4, <1>5, <1>6, <1>7, <1>8, <1>9, ControlFrom

LEMMA ControlSliceMerged ==
  ASSUME Types, Control, NEW i \in Threads, SliceMerged(i)
  PROVE  Control'
<1>1. /\ LeftBy(Main) /\ main' = <<"merge", i + 1>> /\ main[1] = "merge"
      /\ UNCHANGED <<input, array, n, frames, alive>>
  BY SliceMergedEffect
<1>2. inside' = inside \ {Main} /\ \A d \in Callers : d # Main => call'[d] = call[d]
  BY <1>1 DEF LeftBy
<1>3. alive' = {}
  BY <1>1 DEF Control
<1>4. \A j \in Threads : Nested(j)'
  BY <1>1, NestedSame DEF Control
<1>5. \A j \in Threads \cap inside' : FALSE
  BY <1>1, <1>2, <1>3 DEF Control, InMerge
<1>6. \A d \in inside' : Arguments(call'[d])
  <2> TAKE d \in inside'
  <2>1. d \in inside /\ d \in Callers /\ d # Main
    BY <1>2 DEF Types
  <2> QED
    BY <1>2, <2>1 DEF Control
<1>7. \A j \in Threads : j \notin alive' => frames'[j] = <<>>
  BY <1>1 DEF Control
<1> QED
  BY <1>1, <1>2, <1>3, <1>4, <1>5, <1>6, <1>7, ControlFrom

LEMMA ControlNext ==
  ASSUME Types, Control, [Next]_vars
  PROVE  Control'
<1>1. CASE UNCHANGED vars
  <2>1. \A i \in Threads : Nested(i)'
    BY <1>1, NestedSame DEF Control, vars
  <2>2. \A c : SameCall(c)
    BY <1>1 DEF SameCall, vars
  <2>3. \A i \in Threads \cap inside' : InMerge(i)'
    BY <1>1, <2>2, InMergeSame DEF Control, vars, InMerge
  <2>4. Main \in inside' => MainInMerge'
    BY <1>1, <2>2, MainInMergeSame DEF Control, vars
  <2>5. \A i \in alive' : Created(i)' /\ (main'[1] = "join" => i >= main'[2])
    BY <1>1 DEF Control, Created, vars
  <2>6. /\ \A i \in Threads : i \notin alive' => frames'[i] = <<>>
        /\ main'[1] = "merge" => alive' = {}
        /\ \A c \in inside' : Arguments(call'[c])
        /\ UNCHANGED <<input, n>>
    BY <1>1 DEF Control, vars
  <2> QED
    BY <2>1, <2>3, <2>4, <2>5, <2>6, ControlFrom
<1>2. Main \in Callers /\ Threads \subseteq Callers /\ Main \notin Threads
  BY DEF Callers, Main, Threads
<1>3. ASSUME NEW c \in Callers, Take(c) PROVE Control'
  BY <1>3, TakenLeft, TakenRight, ControlTaken DEF Take
<1>4. ASSUME NEW i \in Threads, SortFirst(i) PROVE Control'
  <2>1. PushedBy(i, "first", Top(i).low, Half(i)) /\ Top(i).low < Top(i).high
    BY <1>4, SortFirstEffect DEF SortFirst
  <2>2. Nested(i)'
    BY <2>1, NestedPushed
  <2> QED
    BY <2>1, <2>2, ControlPushed
<1>5. ASSUME NEW i \in Threads, SortSecond(i) PROVE Control'
  <2>1. PushedBy(i, "second", Half(i) + 1, Top(i).high)
    BY <1>5, SortSecondEffect
  <2>2. Top(i).low < Top(i).high
    BY <1>5, TopBounds DEF SortSecond, Sorting
  <2>3. Nested(i)'
    BY <2>1, <2>2, NestedPushed
  <2> QED
    BY <2>1, <2>3, ControlPushed
<1>6. ASSUME NEW i \in Threads, SortNone(i) PROVE Control'
  <2>1. PoppedBy(i) /\ i \in alive \ inside /\ UNCHANGED <<input, array, n, inside, call, alive, main>>
    BY <1>6, SortNoneEffect
  <2> QED
    BY <2>1, ControlPopped
<1>7. ASSUME NEW i \in Threads, HalvesMerged(i) PROVE Control'
  <2>1. LeftBy(i) /\ PoppedBy(i) /\ i \in alive /\ UNCHANGED <<input, array, n, alive, main>>
    BY <1>7, HalvesMergedEffect
  <2>2. inside' = inside \ {i} /\ \A d \in Callers : d # i => call'[d] = call[d]
    BY <2>1 DEF LeftBy
  <2>3. i \notin inside' /\ inside' \subseteq inside
    BY <2>2
  <2> QED
    BY <2>1, <2>2, <2>3, ControlPopped
<1>8. ASSUME NEW i \in Threads, MergeHalves(i) PROVE Control'
  <2>1. EnteredBy(i, Top(i).low, Half(i), Top(i).high) /\ i \in alive /\ frames[i] # <<>> /\ Top(i).at = "second"
    BY <1>8, MergeHalvesEffect DEF MergeHalves, Sorting
  <2>2. InMerge(i)'
    BY <2>1 DEF EnteredBy, InMerge, Top, Half
  <2> QED
    BY <1>2, <2>1, <2>2, ControlEntered
<1>9. ASSUME NEW i \in Threads, MergeSlice(i) PROVE Control'
  <2>1. /\ EnteredBy(Main, Left(0), Left(i) - 1, Right(i))
        /\ main[1] = "merge" /\ main[2] = i /\ i < n
    BY <1>9, MergeSliceEffect DEF MergeSlice
  <2>2. /\ UNCHANGED <<input, array, n, frames, alive, main>>
        /\ call'[Main].low = Left(0) /\ call'[Main].half = Left(i) - 1 /\ call'[Main].high = Right(i)
    BY <2>1 DEF EnteredBy
  <2>3. MainInMerge'
    BY <2>1, <2>2, Fixed DEF MainInMerge, Main
  <2> QED
    BY <1>2, <2>1, <2>3, ControlEntered
<1>10. ASSUME NEW i \in Threads, ThreadStep(i) PROVE Control'
  BY <1>2, <1>3, <1>4, <1>5, <1>6, <1>7, <1>8, <1>10, ControlFinish DEF ThreadStep
<1>11. CASE MainStep
  BY <1>2, <1>3, <1>9, <1>11, ControlCreate, ControlJoin, ControlSliceMerged DEF MainStep
<1> QED
  BY <1>1, <1>10, <1>11 DEF Next

-----------------------------------------------------------------------------
(* No race.                                                                *)

LEMMA ReachInSlice ==
  ASSUME Types, Control, NEW i \in Threads \cap inside
  PROVE  \A k \in Reach(i) : k \in Int /\ Left(i) <= k /\ k <= Right(i)
<1>1. frames[i] # <<>> /\ call[i].low = Top(i).low /\ call[i].high = Top(i).high
  BY DEF Control, InMerge
<1> QED
  BY <1>1, TopFrame, TopBounds DEF Reach

LEMMA NobodyElse ==
  ASSUME Types, Control, Main \in inside
  PROVE  inside = {Main} /\ alive = {} /\ main[1] = "merge" /\ \A i \in Threads : frames[i] = <<>>
<1>1. main[1] = "merge" /\ alive = {}
  BY DEF Control, MainInMerge
<1>2. \A i \in Threads : i \notin inside
  BY <1>1 DEF Control, InMerge
<1> QED
  BY <1>1, <1>2 DEF Types, Callers, Control

LEMMA Disjoint ==
  ASSUME Types, Control, NEW c \in inside, NEW d \in inside, c # d
  PROVE  Reach(c) \cap Reach(d) = {}
<1>1. c \in Threads /\ d \in Threads
  BY NobodyElse DEF Types, Callers
<1>2. c \in Int /\ d \in Int
  BY <1>1 DEF Threads
<1>3. \A k \in Reach(c) : k \in Int /\ Left(c) <= k /\ k <= Right(c)
  BY <1>1, ReachInSlice
<1>4. \A k \in Reach(d) : k \in Int /\ Left(d) <= k /\ k <= Right(d)
  BY <1>1, ReachInSlice
<1>5. /\ c < d => Right(c) < Left(d)
      /\ d < c => Right(d) < Left(c)
      /\ Left(c) \in Int /\ Right(c) \in Int /\ Left(d) \in Int /\ Right(d) \in Int
  BY <1>1, SliceFacts
<1> QED
  BY <1>2, <1>3, <1>4, <1>5

LEMMA ControlNoRace == Types /\ Control => NoRace
<1> SUFFICES ASSUME Types, Control PROVE NoRace
  OBVIOUS
<1>1. ASSUME NEW c \in inside
      PROVE  /\ Reach(c) \subseteq DOMAIN array
             /\ LeftLeft(c) \/ RightLeft(c) => call[c].ind_array \in Reach(c)
  <2>1. call[c] \in CallTypes /\ Arguments(call[c]) /\ DOMAIN array = Index
    BY DEF Types, Control
  <2> QED
    BY <2>1, CallFacts DEF Reach, LeftLeft, RightLeft
<1> QED
  BY <1>1, Disjoint DEF NoRace

-----------------------------------------------------------------------------
(* Order: what is sorted.                                                  *)

\* A write outside a sorted block leaves it sorted.
LEMMA SortedElsewhere ==
  ASSUME NEW arr, NEW arr2, NEW p, NEW low, NEW high, low .. high \subseteq Index,
         \A k \in Index : k # p => arr2[k] = arr[k],
         p \notin low .. high, Sorted(arr, low, high)
  PROVE  Sorted(arr2, low, high)
  BY DEF Sorted

LEMMA SortedIn ==
  ASSUME Types, NEW k \in Index
  PROVE  array[k] \in Int
  BY BoundsAssumption DEF Types

\* The number c writes is not less than what it has written, nor greater than
\* what it has still to write.
LEMMA LoopWrites ==
  ASSUME Types, Control, NEW c \in Callers, TakenBy(c), LoopSorted(call[c], array),
         array'[call[c].ind_array] \in Int,
         \A k \in call[c].low .. call[c].ind_array - 1 : array[k] <= array'[call[c].ind_array],
         call'[c].i \in Int, call[c].i <= call'[c].i, call'[c].j \in Int, call[c].j <= call'[c].j,
         \A a \in call'[c].i .. call[c].half - call[c].low : array'[call[c].ind_array] <= call[c].left[a],
         \A b \in call'[c].j .. call[c].high - call[c].half - 1 : array'[call[c].ind_array] <= call[c].right[b]
  PROVE  LoopSorted(call'[c], array')
<1> DEFINE m == call[c]
           p == call'[c]
           v == array'[call[c].ind_array]
<1>1. /\ m \in CallTypes /\ Arguments(m)
      /\ m.ind_array \in m.low .. m.high
      /\ \A k \in Index : k # m.ind_array => array'[k] = array[k]
      /\ p.low = m.low /\ p.half = m.half /\ p.high = m.high
      /\ p.left = m.left /\ p.right = m.right
      /\ p.ind_array = m.ind_array + 1
  BY DEF TakenBy
<1>2. /\ Sorted(m.left, 0, m.half - m.low)
      /\ Sorted(m.right, 0, m.high - m.half - 1)
      /\ Sorted(array, m.low, m.ind_array - 1)
      /\ \A k \in m.low .. m.ind_array - 1 :
           /\ \A a \in m.i .. m.half - m.low : array[k] <= m.left[a]
           /\ \A b \in m.j .. m.high - m.half - 1 : array[k] <= m.right[b]
  BY DEF LoopSorted
<1>3. /\ v \in Int /\ v = array'[m.ind_array]
      /\ \A k \in m.low .. m.ind_array - 1 : array[k] <= v
      /\ p.i \in Int /\ m.i <= p.i /\ p.j \in Int /\ m.j <= p.j
      /\ \A a \in p.i .. m.half - m.low : v <= m.left[a]
      /\ \A b \in p.j .. m.high - m.half - 1 : v <= m.right[b]
  OBVIOUS
<1> HIDE DEF m, p, v
<1>4. /\ m.low \in Int /\ m.half \in Int /\ m.high \in Int /\ m.i \in Int /\ m.j \in Int
      /\ m.ind_array \in Int /\ m.low .. m.high \subseteq Index
  BY <1>1, CallFacts
<1>5. ASSUME NEW k \in m.low .. m.ind_array - 1
      PROVE  array'[k] = array[k] /\ array[k] \in Int /\ array'[k] <= v
  <2>1. k \in Index /\ k # m.ind_array
    BY <1>1, <1>4
  <2> QED
    BY <1>1, <1>3, <2>1, SortedIn
<1>6. Sorted(array', m.low, m.ind_array)
  <2> SUFFICES ASSUME NEW k \in m.low .. m.ind_array, NEW q \in m.low .. m.ind_array, k <= q
               PROVE  array'[k] <= array'[q]
    BY DEF Sorted
  <2>1. CASE q = m.ind_array /\ k = m.ind_array
    BY <1>3, <2>1
  <2>2. CASE q = m.ind_array /\ k # m.ind_array
    BY <1>3, <1>4, <1>5, <2>2
  <2>3. CASE q # m.ind_array
    <3>1. k \in m.low .. m.ind_array - 1 /\ q \in m.low .. m.ind_array - 1
      BY <1>4, <2>3
    <3>2. array[k] <= array[q]
      BY <1>2, <3>1 DEF Sorted
    <3> QED
      BY <1>5, <3>1, <3>2
  <2> QED
    BY <2>1, <2>2, <2>3
<1>7. ASSUME NEW k \in m.low .. m.ind_array
      PROVE  /\ \A a \in p.i .. m.half - m.low : array'[k] <= m.left[a]
             /\ \A b \in p.j .. m.high - m.half - 1 : array'[k] <= m.right[b]
  <2>1. CASE k = m.ind_array
    BY <1>3, <2>1
  <2>2. CASE k # m.ind_array
    <3>1. k \in m.low .. m.ind_array - 1
      BY <1>4, <2>2
    <3>2. /\ \A a \in m.i .. m.half - m.low : array[k] <= m.left[a]
          /\ \A b \in m.j .. m.high - m.half - 1 : array[k] <= m.right[b]
          /\ array'[k] = array[k]
      BY <1>2, <1>5, <3>1
    <3> QED
      BY <1>3, <1>4, <3>2
  <2> QED
    BY <2>1, <2>2
<1>8. p.ind_array - 1 = m.ind_array
  BY <1>1, <1>4
<1>9. LoopSorted(p, array')
  BY <1>1, <1>2, <1>6, <1>7, <1>8 DEF LoopSorted
<1> QED
  BY <1>9 DEF p

LEMMA LoopTakes ==
  ASSUME Types, Control, NEW c \in Callers, Take(c), LoopSorted(call[c], array)
  PROVE  LoopSorted(call'[c], array')
<1> DEFINE m == call[c]
           v == array'[call[c].ind_array]
<1>1. TakenBy(c)
  BY TakenLeft, TakenRight DEF Take
<1>2. /\ Sorted(m.left, 0, m.half - m.low)
      /\ Sorted(m.right, 0, m.high - m.half - 1)
      /\ \A k \in m.low .. m.ind_array - 1 :
           /\ \A a \in m.i .. m.half - m.low : array[k] <= m.left[a]
           /\ \A b \in m.j .. m.high - m.half - 1 : array[k] <= m.right[b]
  BY DEF LoopSorted
<1>3. m \in CallTypes /\ Arguments(m)
  BY <1>1 DEF TakenBy
<1>4. CASE TakeLeft(c)
  <2>1. /\ m.i \in 0 .. m.half - m.low /\ v = m.left[m.i]
        /\ call'[c].i = m.i + 1 /\ call'[c].j = m.j
        /\ m.j < m.high - m.half => v <= m.right[m.j]
    BY <1>4, TakenLeft
  <2> HIDE DEF m, v
  <2>2. /\ m.half \in Int /\ m.low \in Int /\ m.high \in Int /\ m.i \in Int /\ m.j \in Int
        /\ 0 <= m.i /\ 0 <= m.j
        /\ \A k \in 0 .. m.half - m.low : m.left[k] \in Int
        /\ \A k \in 0 .. m.high - m.half - 1 : m.right[k] \in Int
    BY <1>3, CallFacts
  <2>3. v \in Int /\ \A k \in m.low .. m.ind_array - 1 : array[k] <= v
    BY <1>2, <2>1, <2>2
  <2>4. \A a \in m.i + 1 .. m.half - m.low : v <= m.left[a]
    BY <1>2, <2>1, <2>2 DEF Sorted
  <2>5. \A b \in m.j .. m.high - m.half - 1 : v <= m.right[b]
    <3> TAKE b \in m.j .. m.high - m.half - 1
    <3>1. m.j < m.high - m.half /\ m.j \in 0 .. m.high - m.half - 1 /\ b \in 0 .. m.high - m.half - 1
      BY <2>2
    <3>2. v <= m.right[m.j] /\ m.right[m.j] <= m.right[b]
      BY <1>2, <2>1, <3>1 DEF Sorted
    <3> QED
      BY <2>2, <2>3, <3>1, <3>2
  <2> QED
    BY <1>1, <2>1, <2>2, <2>3, <2>4, <2>5, LoopWrites DEF m, v
<1>5. CASE TakeRight(c)
  <2>1. /\ m.j \in 0 .. m.high - m.half - 1 /\ v = m.right[m.j]
        /\ call'[c].i = m.i /\ call'[c].j = m.j + 1
        /\ m.i < m.half - m.low + 1 => m.left[m.i] > v
    BY <1>5, TakenRight
  <2> HIDE DEF m, v
  <2>2. /\ m.half \in Int /\ m.low \in Int /\ m.high \in Int /\ m.i \in Int /\ m.j \in Int
        /\ 0 <= m.i /\ 0 <= m.j
        /\ \A k \in 0 .. m.half - m.low : m.left[k] \in Int
        /\ \A k \in 0 .. m.high - m.half - 1 : m.right[k] \in Int
    BY <1>3, CallFacts
  <2>3. v \in Int /\ \A k \in m.low .. m.ind_array - 1 : array[k] <= v
    BY <1>2, <2>1, <2>2
  <2>4. \A b \in m.j + 1 .. m.high - m.half - 1 : v <= m.right[b]
    BY <1>2, <2>1, <2>2 DEF Sorted
  <2>5. \A a \in m.i .. m.half - m.low : v <= m.left[a]
    <3> TAKE a \in m.i .. m.half - m.low
    <3>1. m.i < m.half - m.low + 1 /\ m.i \in 0 .. m.half - m.low /\ a \in 0 .. m.half - m.low
      BY <2>2
    <3>2. v < m.left[m.i] /\ m.left[m.i] <= m.left[a]
      BY <1>2, <2>1, <2>2, <2>3, <3>1 DEF Sorted
    <3> QED
      BY <2>2, <2>3, <3>1, <3>2
  <2> QED
    BY <1>1, <2>1, <2>2, <2>3, <2>4, <2>5, LoopWrites DEF m, v
<1> QED
  BY <1>4, <1>5 DEF Take

LEMMA OrderFrom ==
  ASSUME UNCHANGED <<input, n>>,
         \A c \in inside' : LoopSorted(call'[c], array'),
         \A i \in Threads : FramesSorted(i)',
         \A i \in Threads : i \in Unmerged' /\ Created(i)' /\ frames'[i] = <<>> =>
            Sorted(array', Left(i), Right(i)),
         main'[1] = "merge" /\ Main \notin inside' => Sorted(array', 0, Right(main'[2] - 1))
  PROVE  Order'
<1>1. Threads' = Threads /\ LENGTH_ARRAY' = LENGTH_ARRAY /\ n' = n
  BY Fixed
<1>2. \A c \in inside' : LoopSorted(call[c], array)'
  BY DEF LoopSorted, Sorted
<1>3. \A i \in Unmerged' : Created(i)' /\ frames'[i] = <<>> => Sorted(array', Left(i)', Right(i)')
  BY <1>1, Fixed DEF Unmerged
<1>4. main'[1] = "merge" /\ Main \notin inside' => Sorted(array', 0, (Right(main[2] - 1))')
  BY <1>1 DEF Right
<1> QED
  BY <1>1, <1>2, <1>3, <1>4 DEF Order, Main, Sorted

LEMMA OrderInit == Init => Order
<1> SUFFICES ASSUME Init PROVE Order
  OBVIOUS
<1>1. inside = {} /\ main = <<"create", 0>> /\ \A i \in Threads : frames[i] = <<>>
  BY DEF Init
<1>2. \A i \in Threads : ~Created(i)
  BY <1>1 DEF Created, Threads
<1>3. \A i \in Threads : FramesSorted(i)
  BY <1>1 DEF FramesSorted
<1> QED
  BY <1>1, <1>2, <1>3 DEF Order, Unmerged

\* The calls of merge_sort of thread i stay in its slice.
LEMMA SliceBlocks ==
  ASSUME Types, Control, NEW i \in Threads
  PROVE  /\ Left(i) \in Int /\ Right(i) \in Int /\ Left(i) .. Right(i) \subseteq Index
         /\ \A d \in 1 .. Len(frames[i]) :
              LET f == frames[i][d] IN
              /\ f.low \in Int /\ f.high \in Int /\ HalfOf(f) \in Int
              /\ Left(i) <= f.low /\ f.high <= Right(i)
              /\ f.at # "start" => f.low <= HalfOf(f) /\ HalfOf(f) < f.high
<1>1. /\ Left(i) \in Int /\ Right(i) \in Int
      /\ 0 <= Left(i) /\ Right(i) <= LENGTH_ARRAY - 1 /\ LENGTH_ARRAY \in Nat
  BY SliceFacts DEF Types
<1>2. ASSUME NEW d \in 1 .. Len(frames[i])
      PROVE  LET f == frames[i][d] IN
             /\ f.low \in Int /\ f.high \in Int /\ HalfOf(f) \in Int
             /\ Left(i) <= f.low /\ f.high <= Right(i)
             /\ f.at # "start" => f.low <= HalfOf(f) /\ HalfOf(f) < f.high
  <2>1. frames[i] \in Seq(FrameTypes)
    BY DEF Types
  <2>2. frames[i][d] \in FrameTypes
    BY <2>1
  <2>3. /\ Left(i) <= frames[i][d].low /\ frames[i][d].high <= Right(i)
        /\ frames[i][d].at # "start" => frames[i][d].low < frames[i][d].high
    BY DEF Control, Nested
  <2> QED
    BY <2>2, <2>3, Halves DEF FrameTypes
<1> QED
  BY <1>1, <1>2 DEF Index

\* A write outside the slice disturbs nothing that its thread has sorted.
LEMMA FramesElsewhere ==
  ASSUME Types, Control, NEW i \in Threads, FramesSorted(i), NEW p, p \notin Left(i) .. Right(i),
         \A k \in Index : k # p => array'[k] = array[k],
         frames'[i] = frames[i], i \in inside' <=> i \in inside
  PROVE  FramesSorted(i)'
<1>1. ASSUME NEW low \in Int, NEW high \in Int, Left(i) <= low, high <= Right(i), Sorted(array, low, high)
      PROVE  Sorted(array', low, high)
  <2>1. low .. high \subseteq Left(i) .. Right(i) /\ Left(i) .. Right(i) \subseteq Index
    BY <1>1, SliceBlocks
  <2>2. low .. high \subseteq Index /\ p \notin low .. high
    BY <2>1
  <2> QED
    BY <1>1, <2>2, SortedElsewhere
<1>2. ASSUME NEW d \in 1 .. Len(frames[i]), frames[i][d].at = "second",
             d < Len(frames[i]) \/ i \notin inside
      PROVE  Sorted(array', frames[i][d].low, HalfOf(frames[i][d]))
  <2>1. Sorted(array, frames[i][d].low, HalfOf(frames[i][d]))
    BY <1>2 DEF FramesSorted
  <2>2. /\ frames[i][d].low \in Int /\ HalfOf(frames[i][d]) \in Int
        /\ Left(i) <= frames[i][d].low /\ HalfOf(frames[i][d]) <= Right(i)
    BY <1>2, SliceBlocks
  <2> QED
    BY <1>1, <2>1, <2>2
<1>3. ASSUME frames[i] # <<>>, i \notin inside
      PROVE  /\ Top(i).at = "first" => Sorted(array', Top(i).low, Half(i))
             /\ Top(i).at = "second" => Sorted(array', Half(i) + 1, Top(i).high)
  <2>1. /\ Top(i).at = "first" => Sorted(array, Top(i).low, Half(i))
        /\ Top(i).at = "second" => Sorted(array, Half(i) + 1, Top(i).high)
    BY <1>3 DEF FramesSorted
  <2>2. /\ Top(i).low \in Int /\ Top(i).high \in Int /\ Half(i) \in Int /\ Half(i) + 1 \in Int
        /\ Left(i) <= Top(i).low /\ Top(i).high <= Right(i)
        /\ Top(i).at # "start" => Half(i) <= Right(i) /\ Left(i) <= Half(i) + 1
    BY <1>3, TopFrame, TopBounds
  <2> QED
    BY <1>1, <2>1, <2>2
<1>4. Top(i)' = Top(i) /\ Half(i)' = Half(i)
  BY DEF Top, Half
<1> QED
  BY <1>2, <1>3, <1>4 DEF FramesSorted, HalfOf

\* Nothing that thread i has sorted changes.
LEMMA FramesSame ==
  ASSUME NEW i, FramesSorted(i), array' = array, frames'[i] = frames[i], i \in inside' <=> i \in inside
  PROVE  FramesSorted(i)'
  BY DEF FramesSorted, Top, Half, HalfOf

\* A call of merge writes outside the slices that others have sorted.
LEMMA WrittenOutside ==
  ASSUME Types, Control, NEW c \in Callers, TakenBy(c), NEW i \in Threads,
         IF c = Main THEN i > main[2] ELSE i # c
  PROVE  call[c].ind_array \notin Left(i) .. Right(i)
<1> DEFINE p == call[c].ind_array
<1>1. c \in inside /\ p \in Reach(c) /\ call[c] \in CallTypes /\ Arguments(call[c])
  BY DEF TakenBy, Reach
<1>2. CASE c = Main
  <2>1. /\ main[1] = "merge" /\ main[2] < n /\ call[c].high = Right(main[2]) /\ main[2] \in 1 .. n
    BY <1>1, <1>2 DEF Control, MainInMerge, Types
  <2>2. main[2] \in Threads /\ i > main[2] /\ i \in Int /\ main[2] \in Int
    BY <1>2, <2>1 DEF Threads, Types
  <2>3. Right(main[2]) < Left(i) /\ Left(i) \in Int /\ Right(main[2]) \in Int
    BY <2>2, SliceFacts
  <2> QED
    BY <1>1, <2>1, <2>3 DEF Reach
<1>3. CASE c # Main
  <2>1. c \in Threads \cap inside /\ i # c
    BY <1>1, <1>3 DEF Callers
  <2>2. p \in Int /\ Left(c) <= p /\ p <= Right(c)
    BY <1>1, <2>1, ReachInSlice
  <2>3. c \in Int /\ i \in Int
    BY <2>1 DEF Threads
  <2>4. /\ c < i => Right(c) < Left(i)
        /\ i < c => Right(i) < Left(c)
        /\ Left(c) \in Int /\ Right(c) \in Int /\ Left(i) \in Int /\ Right(i) \in Int
    BY <2>1, SliceFacts
  <2> QED
    BY <2>1, <2>2, <2>3, <2>4
<1> QED
  BY <1>2, <1>3

LEMMA OrderTaken ==
  ASSUME Types, Control, Order, NEW c \in Callers, Take(c)
  PROVE  Order'
<1>1. TakenBy(c)
  BY TakenLeft, TakenRight DEF Take
<1>2. /\ c \in inside /\ call[c].ind_array \in Reach(c)
      /\ \A k \in Index : k # call[c].ind_array => array'[k] = array[k]
      /\ \A d \in Callers : d # c => call'[d] = call[d]
      /\ UNCHANGED <<input, n, frames, inside, alive, main>>
  BY <1>1 DEF TakenBy, Reach
<1>3. ASSUME NEW d \in inside' PROVE LoopSorted(call'[d], array')
  <2>1. LoopSorted(call[d], array) /\ d \in inside /\ d \in Callers
    BY <1>2 DEF Order, Types
  <2>2. CASE d = c
    BY <2>1, <2>2, LoopTakes
  <2>3. CASE d # c
    <3> DEFINE m == call[d]
    <3>1. call'[d] = m /\ m \in CallTypes /\ Arguments(m) /\ LoopSorted(m, array)
      BY <1>2, <2>1, <2>3 DEF Types, Control
    <3>2. call[c].ind_array \notin m.low .. m.high
      BY <1>2, <2>1, <2>3, Disjoint DEF Reach
    <3> HIDE DEF m
    <3>3. m.low .. m.ind_array - 1 \subseteq m.low .. m.high /\ m.low .. m.high \subseteq Index
      BY <3>1, CallFacts
    <3>4. \A k \in m.low .. m.ind_array - 1 : array'[k] = array[k]
      BY <1>2, <3>2, <3>3
    <3> QED
      BY <3>1, <3>4 DEF LoopSorted, Sorted
  <2> QED
    BY <2>2, <2>3
<1>4. Main \in inside => c = Main
  BY <1>2, NobodyElse
<1>5. ASSUME NEW i \in Threads PROVE FramesSorted(i)'
  <2>1. FramesSorted(i)
    BY DEF Order
  <2>2. CASE c = Main
    <3>1. frames'[i] = <<>>
      BY <1>2, <2>2, NobodyElse
    <3> QED
      BY <3>1 DEF FramesSorted
  <2>3. CASE c # Main /\ i # c
    BY <1>1, <1>2, <2>1, <2>3, WrittenOutside, FramesElsewhere
  <2>4. CASE c # Main /\ i = c
    <3>1. ASSUME NEW d \in 1 .. Len(frames[i]), frames[i][d].at = "second", d < Len(frames[i])
          PROVE  Sorted(array', frames[i][d].low, HalfOf(frames[i][d]))
      <4> DEFINE low == frames[i][d].low
                 half == HalfOf(frames[i][d])
      <4>1. Sorted(array, low, half)
        BY <2>1, <3>1 DEF FramesSorted
      <4>2. frames[i] # <<>> /\ call[i].low = Top(i).low
        BY <1>2, <2>4 DEF Control, InMerge
      <4>3. low \in Int /\ half \in Int /\ Left(i) <= low /\ half <= Right(i) /\ low .. half \subseteq Index
        <5>1. low \in Int /\ half \in Int /\ Left(i) <= low /\ half <= Right(i)
          BY <3>1, SliceBlocks
        <5> HIDE DEF low, half
        <5> QED
          BY <5>1, SliceBlocks
      <4>4. half + 1 <= Top(i).low
        <5>1. Len(frames[i]) \in 1 .. Len(frames[i])
          BY <4>2, TopFrame
        <5>2. CalledLow(frames[i][d]) <= frames[i][Len(frames[i])].low
          BY <3>1, <5>1 DEF Control, Nested
        <5> QED
          BY <3>1, <5>2 DEF CalledLow, Top
      <4>5. call[c].ind_array \in Int /\ Top(i).low <= call[c].ind_array
        <5>1. call[c].low \in Int /\ call[c].high \in Int
          BY <1>1 DEF TakenBy, CallTypes
        <5> QED
          BY <1>2, <2>4, <4>2, <5>1 DEF Reach
      <4>6. Top(i).low \in Int
        BY <4>2, TopFrame
      <4> HIDE DEF low, half
      <4>7. call[c].ind_array \notin low .. half
        BY <4>3, <4>4, <4>5, <4>6
      <4>8. Sorted(array', low, half)
        BY <1>2, <4>1, <4>3, <4>7, SortedElsewhere
      <4> QED
        BY <4>8 DEF low, half
    <3>2. i \in inside'
      BY <1>2, <2>4
    <3> QED
      BY <1>2, <3>1, <3>2 DEF FramesSorted, HalfOf
  <2> QED
    BY <2>2, <2>3, <2>4
<1>6. ASSUME NEW i \in Threads, i \in Unmerged', Created(i)', frames'[i] = <<>>
      PROVE  Sorted(array', Left(i), Right(i))
  <2>1. i \in Unmerged /\ Created(i) /\ frames[i] = <<>>
    BY <1>2, <1>6 DEF Unmerged, Created, Main, Threads
  <2>2. Sorted(array, Left(i), Right(i))
    BY <2>1 DEF Order
  <2>3. i # c
    BY <1>2, <2>1 DEF Control, InMerge
  <2>4. c = Main => i > main[2]
    BY <1>2, <2>1, NobodyElse DEF Unmerged
  <2>5. call[c].ind_array \notin Left(i) .. Right(i) /\ Left(i) .. Right(i) \subseteq Index
    BY <1>1, <2>3, <2>4, WrittenOutside, SliceBlocks
  <2> QED
    BY <1>2, <2>2, <2>5, SortedElsewhere
<1>7. main'[1] = "merge" => Main \in inside'
  <2> SUFFICES ASSUME main[1] = "merge" PROVE Main \in inside
    BY <1>2
  <2>1. c \notin Threads
    BY <1>2 DEF Control, InMerge
  <2> QED
    BY <1>2, <2>1 DEF Callers
<1> QED
  BY <1>2, <1>3, <1>5, <1>6, <1>7, OrderFrom

\* merge is called on two sorted blocks.
LEMMA OrderEntered ==
  ASSUME Types, Control, Order, NEW c \in Callers, NEW low \in Int, NEW half \in Int, NEW high \in Int,
         EnteredBy(c, low, half, high), Sorted(array, low, half), Sorted(array, half + 1, high)
  PROVE  Order'
<1> DEFINE m == call'[c]
<1>1. /\ c \notin inside /\ inside' = inside \cup {c}
      /\ \A d \in Callers : d # c => call'[d] = call[d]
      /\ m.low = low /\ m.half = half /\ m.high = high /\ m.i = 0 /\ m.j = 0 /\ m.ind_array = low
      /\ \A k \in 0 .. half - low : m.left[k] = array[low + k]
      /\ \A k \in 0 .. high - half - 1 : m.right[k] = array[half + 1 + k]
      /\ UNCHANGED <<input, array, n, frames, alive, main>>
  BY DEF EnteredBy
<1> HIDE DEF m
<1>2. LoopSorted(m, array)
  <2>1. Sorted(m.left, 0, m.half - m.low)
    <3> SUFFICES ASSUME NEW a \in 0 .. half - low, NEW b \in 0 .. half - low, a <= b
                 PROVE  m.left[a] <= m.left[b]
      BY <1>1 DEF Sorted
    <3>1. low + a \in low .. half /\ low + b \in low .. half /\ low + a <= low + b
      OBVIOUS
    <3> QED
      BY <1>1, <3>1 DEF Sorted
  <2>2. Sorted(m.right, 0, m.high - m.half - 1)
    <3> SUFFICES ASSUME NEW a \in 0 .. high - half - 1, NEW b \in 0 .. high - half - 1, a <= b
                 PROVE  m.right[a] <= m.right[b]
      BY <1>1 DEF Sorted
    <3>1. half + 1 + a \in half + 1 .. high /\ half + 1 + b \in half + 1 .. high /\ half + 1 + a <= half + 1 + b
      OBVIOUS
    <3> QED
      BY <1>1, <3>1 DEF Sorted
  <2>3. \A k \in m.low .. m.ind_array - 1 : FALSE
    BY <1>1
  <2> QED
    BY <2>1, <2>2, <2>3 DEF LoopSorted, Sorted
<1>3. ASSUME NEW d \in inside' PROVE LoopSorted(call'[d], array')
  <2>1. CASE d = c
    BY <1>1, <1>2, <2>1 DEF m
  <2>2. CASE d # c
    <3>1. d \in inside /\ d \in Callers
      BY <1>1, <2>2 DEF Types
    <3> QED
      BY <1>1, <2>2, <3>1 DEF Order
  <2> QED
    BY <2>1, <2>2
<1>4. ASSUME NEW i \in Threads PROVE FramesSorted(i)'
  <2>1. FramesSorted(i)
    BY DEF Order
  <2>2. CASE i = c
    <3>1. \A d \in 1 .. Len(frames[i]) :
            frames[i][d].at = "second" => Sorted(array, frames[i][d].low, HalfOf(frames[i][d]))
      BY <1>1, <2>1, <2>2 DEF FramesSorted
    <3>2. i \in inside'
      BY <1>1, <2>2
    <3> QED
      BY <1>1, <3>1, <3>2 DEF FramesSorted, HalfOf
  <2>3. CASE i # c
    BY <1>1, <2>1, <2>3, FramesSame
  <2> QED
    BY <2>2, <2>3
<1>5. ASSUME NEW i \in Threads, i \in Unmerged', Created(i)', frames'[i] = <<>>
      PROVE  Sorted(array', Left(i), Right(i))
  <2>1. i \in Unmerged /\ Created(i) /\ frames[i] = <<>>
    BY <1>1, <1>5 DEF Unmerged, Created, Main, Threads
  <2> QED
    BY <1>1, <2>1 DEF Order
<1>6. main'[1] = "merge" /\ Main \notin inside' => Sorted(array', 0, Right(main'[2] - 1))
  BY <1>1 DEF Order
<1> QED
  BY <1>1, <1>3, <1>4, <1>5, <1>6, OrderFrom

LEMMA OrderPushed ==
  ASSUME Types, Control, Order, NEW i \in Threads, NEW at, NEW low, NEW high,
         PushedBy(i, at, low, high),
         at = "second" => Sorted(array, Top(i).low, Half(i))
  PROVE  Order'
<1> DEFINE f == frames[i]
           g == frames'[i]
           len == Len(frames[i])
<1>1. /\ i \in alive \ inside /\ f # <<>>
      /\ \A j \in Threads : j # i => frames'[j] = frames[j]
      /\ OneMore(f, g, at, low, high)
      /\ UNCHANGED <<input, array, n, inside, call, alive, main>>
  BY DEF PushedBy
<1>2. /\ g # <<>> /\ len \in Nat \ {0} /\ Len(g) = len + 1
      /\ \A d \in 1 .. len - 1 : g[d] = f[d]
      /\ g[len].low = f[len].low /\ g[len].high = f[len].high /\ g[len].at = at
      /\ g[len + 1].at = "start"
  BY <1>1 DEF OneMore
<1>3. FramesSorted(i)'
  <2>1. \A d \in 1 .. len : f[d].at = "second" => Sorted(array, f[d].low, HalfOf(f[d]))
    BY <1>1 DEF Order, FramesSorted
  <2>2. f[len].low = Top(i).low /\ HalfOf(f[len]) = Half(i)
    BY DEF Top, Half, HalfOf
  <2> HIDE DEF f, g, len
  <2>3. ASSUME NEW d \in 1 .. len + 1, g[d].at = "second"
        PROVE  Sorted(array, g[d].low, HalfOf(g[d]))
    <3>1. CASE d = len
      <4>1. HalfOf(g[d]) = HalfOf(f[len])
        BY <1>2, <3>1 DEF HalfOf
      <4> QED
        BY <1>2, <2>2, <2>3, <3>1, <4>1
    <3>2. CASE d < len
      <4>1. d \in 1 .. len - 1 /\ d \in 1 .. len
        BY <1>2, <3>2
      <4>2. g[d] = f[d]
        BY <1>2, <4>1
      <4> QED
        BY <2>1, <2>3, <4>1, <4>2
    <3> QED
      BY <1>2, <2>3, <3>1, <3>2
  <2>4. g[Len(g)].at = "start"
    BY <1>2
  <2>5. Top(i)' = g[Len(g)]
    BY DEF Top, g
  <2>6. Len(g) = len + 1
    BY <1>2
  <2> QED
    BY <1>1, <2>3, <2>4, <2>5, <2>6 DEF FramesSorted, HalfOf, g
<1>4. ASSUME NEW j \in Threads PROVE FramesSorted(j)'
  BY <1>1, <1>3, FramesSame DEF Order
<1>5. ASSUME NEW j \in Threads, j \in Unmerged', Created(j)', frames'[j] = <<>>
      PROVE  Sorted(array', Left(j), Right(j))
  <2>1. j \in Unmerged /\ Created(j) /\ frames[j] = <<>>
    BY <1>1, <1>2, <1>5 DEF Unmerged, Created, Main, Threads
  <2> QED
    BY <1>1, <2>1 DEF Order
<1>6. main'[1] = "merge" /\ Main \notin inside' => Sorted(array', 0, Right(main'[2] - 1))
  BY <1>1 DEF Order
<1>7. \A d \in inside' : LoopSorted(call'[d], array')
  BY <1>1 DEF Order
<1> QED
  BY <1>1, <1>4, <1>5, <1>6, <1>7, OrderFrom

\* merge_sort returns with its block sorted.
LEMMA OrderPopped ==
  ASSUME Types, Control, Order, NEW i \in Threads, PoppedBy(i), Sorted(array, Top(i).low, Top(i).high),
         UNCHANGED <<input, array, n, alive, main>>, inside' = inside \ {i},
         \A d \in inside' : call'[d] = call[d]
  PROVE  Order'
<1> DEFINE f == frames[i]
           g == frames'[i]
           len == Len(frames[i])
<1>1. /\ f # <<>> /\ len \in Nat \ {0} /\ Len(g) = len - 1 /\ (g # <<>> <=> len > 1)
      /\ \A d \in 1 .. len - 1 : g[d] = f[d]
      /\ \A j \in Threads : j # i => frames'[j] = frames[j]
  BY DEF PoppedBy, OneLess
<1>2. /\ f[1].low = Left(i) /\ f[1].high = Right(i)
      /\ \A d \in 1 .. len :
           d < len =>
             /\ f[d].at # "start"
             /\ f[d + 1].low = CalledLow(f[d]) /\ f[d + 1].high = CalledHigh(f[d])
  BY <1>1 DEF Control, Nested
<1>3. Sorted(array, f[len].low, f[len].high)
  BY DEF Top
<1>4. \A d \in 1 .. len : f[d].at = "second" /\ d < len => Sorted(array, f[d].low, HalfOf(f[d]))
  BY DEF Order, FramesSorted
<1>5. FramesSorted(i)'
  <2> HIDE DEF f, g, len
  <2>1. \A d \in 1 .. len - 1 : g[d].at = "second" => Sorted(array, g[d].low, HalfOf(g[d]))
    BY <1>1, <1>4
  <2>2. ASSUME g # <<>>
        PROVE  /\ g[len - 1].at = "first" => Sorted(array, g[len - 1].low, HalfOf(g[len - 1]))
               /\ g[len - 1].at = "second" => Sorted(array, HalfOf(g[len - 1]) + 1, g[len - 1].high)
    <3>1. len - 1 \in 1 .. len - 1 /\ len - 1 \in 1 .. len /\ len - 1 < len /\ len - 1 + 1 = len
      BY <1>1, <2>2
    <3>2. /\ g[len - 1] = f[len - 1]
          /\ f[len].low = CalledLow(f[len - 1]) /\ f[len].high = CalledHigh(f[len - 1])
      BY <1>1, <1>2, <3>1
    <3>3. "first" # "second"
      OBVIOUS
    <3> QED
      BY <1>3, <3>2, <3>3 DEF CalledLow, CalledHigh
  <2>3. Len(g) = len - 1
    BY <1>1
  <2>4. Top(i)' = g[len - 1] /\ Half(i)' = HalfOf(g[len - 1])
    BY <2>3 DEF Top, Half, HalfOf, g
  <2> QED
    BY <2>1, <2>2, <2>3, <2>4 DEF FramesSorted, HalfOf, g
<1>6. ASSUME NEW j \in Threads PROVE FramesSorted(j)'
  BY <1>1, <1>5, FramesSame DEF Order
<1>7. Main \in inside' <=> Main \in inside
  BY DEF Main, Threads
<1>8. ASSUME NEW j \in Threads, j \in Unmerged', Created(j)', frames'[j] = <<>>
      PROVE  Sorted(array', Left(j), Right(j))
  <2>1. j \in Unmerged /\ Created(j)
    BY <1>7, <1>8 DEF Unmerged, Created, Main, Threads
  <2>2. CASE j = i
    <3>1. g = <<>>
      BY <1>8, <2>2
    <3> HIDE DEF f, g, len
    <3>2. len = 1
      BY <1>1, <3>1
    <3> QED
      BY <1>2, <1>3, <2>2, <3>2
  <2>3. CASE j # i
    BY <1>1, <1>8, <2>1, <2>3 DEF Order
  <2> QED
    BY <2>2, <2>3
<1>9. main'[1] = "merge" /\ Main \notin inside' => Sorted(array', 0, Right(main'[2] - 1))
  BY <1>7 DEF Order
<1>10. \A d \in inside' : LoopSorted(call'[d], array')
  BY DEF Order
<1> QED
  BY <1>6, <1>8, <1>9, <1>10, OrderFrom

LEMMA OrderCreate ==
  ASSUME Types, Control, Order, NEW i \in Threads, Create(i)
  PROVE  Order'
<1>1. /\ main = <<"create", i>> /\ UNCHANGED <<input, array, n, inside, call>>
      /\ frames' = [frames EXCEPT ![i] = <<Frame(Left(i), Right(i))>>]
      /\ frames \in [Threads -> Seq(FrameTypes)]
  BY DEF Create, Types
<1>2. frames'[i] = <<Frame(Left(i), Right(i))>> /\ \A j \in Threads : j # i => frames'[j] = frames[j]
  BY <1>1
<1>3. \/ main' = <<"create", i + 1>>
      \/ main' = <<"join", 0>> /\ i = n - 1
  BY Turns DEF Create
<1>4. FramesSorted(i)'
  <2>1. Len(frames'[i]) = 1 /\ frames'[i][1].at = "start" /\ Top(i)' = frames'[i][1]
    BY <1>2 DEF Frame, Top
  <2>2. \A d \in 1 .. 1 : d = 1
    OBVIOUS
  <2> QED
    BY <2>1, <2>2 DEF FramesSorted
<1>5. ASSUME NEW j \in Threads PROVE FramesSorted(j)'
  BY <1>1, <1>2, <1>4, FramesSame DEF Order
<1>6. ASSUME NEW j \in Threads, j \in Unmerged', Created(j)', frames'[j] = <<>>
      PROVE  Sorted(array', Left(j), Right(j))
  <2>1. j # i
    BY <1>2, <1>6
  <2>2. j < i + 1 \/ i = n - 1
    BY <1>3, <1>6 DEF Created
  <2>3. j < i
    BY <2>1, <2>2 DEF Threads, Types
  <2>4. j \in Unmerged /\ Created(j) /\ frames[j] = <<>>
    BY <1>1, <1>2, <1>6, <2>1, <2>3 DEF Unmerged, Created
  <2> QED
    BY <1>1, <2>4 DEF Order
<1>7. main'[1] # "merge"
  BY <1>3
<1>8. \A d \in inside' : LoopSorted(call'[d], array')
  BY <1>1 DEF Order
<1> QED
  BY <1>1, <1>5, <1>6, <1>7, <1>8, OrderFrom

LEMMA OrderJoin ==
  ASSUME Types, Control, Order, NEW i \in Threads, Join(i), Control'
  PROVE  Order'
<1>1. main = <<"join", i>> /\ UNCHANGED <<input, array, n, frames, inside, call, alive>>
  BY DEF Join
<1>2. main' = <<"join", i + 1>> \/ main' = <<"merge", 1>>
  BY Turns DEF Join
<1>3. ASSUME NEW j \in Threads, frames[j] = <<>> PROVE Sorted(array, Left(j), Right(j))
  <2>1. j \in Unmerged /\ Created(j)
    BY <1>1 DEF Unmerged, Created
  <2> QED
    BY <1>3, <2>1 DEF Order
<1>4. main'[1] = "merge" /\ Main \notin inside' => Sorted(array', 0, Right(main'[2] - 1))
  <2> SUFFICES ASSUME main'[1] = "merge" PROVE Sorted(array', 0, Right(main'[2] - 1))
    OBVIOUS
  <2>1. main'[2] - 1 = 0
    BY <1>2
  <2>2. 0 \in Threads /\ Left(0) = 0
    BY SliceFacts DEF Threads, Types
  <2>3. 0 \notin alive' /\ Threads' = Threads
    BY <1>1, Fixed DEF Control
  <2>4. frames[0] = <<>>
    BY <1>1, <2>2, <2>3 DEF Control
  <2> QED
    BY <1>1, <1>3, <2>1, <2>2, <2>4
<1>5. \A j \in Threads : FramesSorted(j)'
  BY <1>1, FramesSame DEF Order
<1>6. \A d \in inside' : LoopSorted(call'[d], array')
  BY <1>1 DEF Order
<1> QED
  BY <1>1, <1>3, <1>4, <1>5, <1>6, OrderFrom

LEMMA OrderFinish ==
  ASSUME Types, Control, Order, NEW i \in Threads, Finish(i)
  PROVE  Order'
<1>1. UNCHANGED <<input, array, n, frames, inside, call, main>>
  BY DEF Finish
<1>2. \A j \in Threads : FramesSorted(j)'
  BY <1>1, FramesSame DEF Order
<1>3. \A j \in Threads : j \in Unmerged' /\ Created(j)' => j \in Unmerged /\ Created(j)
  BY <1>1 DEF Unmerged, Created, Main, Threads
<1>4. /\ \A d \in inside' : LoopSorted(call'[d], array')
      /\ main'[1] = "merge" /\ Main \notin inside' => Sorted(array', 0, Right(main'[2] - 1))
      /\ \A j \in Threads : j \in Unmerged' /\ Created(j)' /\ frames'[j] = <<>> =>
           Sorted(array', Left(j), Right(j))
  BY <1>1, <1>3 DEF Order
<1> QED
  BY <1>1, <1>2, <1>4, OrderFrom

LEMMA OrderSliceMerged ==
  ASSUME Types, Control, Order, NEW i \in Threads, SliceMerged(i)
  PROVE  Order'
<1>1. /\ LeftBy(Main) /\ main = <<"merge", i>> /\ main' = <<"merge", i + 1>>
      /\ call[Main].low = Left(0) /\ call[Main].high = Right(i)
      /\ UNCHANGED <<input, array, n, frames, alive>>
  BY SliceMergedEffect
<1>2. /\ Main \in inside /\ inside' = inside \ {Main}
      /\ call[Main] \in CallTypes /\ call[Main].ind_array = call[Main].high + 1
  BY <1>1 DEF LeftBy
<1>3. inside' = {} /\ \A j \in Threads : frames[j] = <<>>
  BY <1>2, NobodyElse
<1>4. Sorted(array, 0, Right(i))
  <2>1. Sorted(array, call[Main].low, call[Main].ind_array - 1)
    BY <1>2 DEF Order, LoopSorted
  <2>2. Left(0) = 0 /\ call[Main].ind_array - 1 = call[Main].high
    BY <1>2, SliceFacts DEF CallTypes
  <2> QED
    BY <1>1, <2>1, <2>2
<1>5. main'[2] - 1 = i /\ i \in Int
  BY <1>1 DEF Threads
<1>6. \A j \in Threads : FramesSorted(j)'
  BY <1>1, <1>3 DEF FramesSorted
<1>7. ASSUME NEW j \in Threads, j \in Unmerged' PROVE Sorted(array', Left(j), Right(j))
  <2>1. j > i
    BY <1>1, <1>5, <1>7 DEF Unmerged, Threads
  <2>2. j \in Unmerged /\ Created(j)
    BY <1>1, <2>1 DEF Unmerged, Created
  <2> QED
    BY <1>1, <1>3, <2>2 DEF Order
<1> QED
  BY <1>1, <1>3, <1>4, <1>5, <1>6, <1>7, OrderFrom

LEMMA OrderNext ==
  ASSUME Types, Control, Order, [Next]_vars, Types', Control'
  PROVE  Order'
<1>1. CASE UNCHANGED vars
  <2>1. \A i \in Threads : FramesSorted(i)'
    BY <1>1, FramesSame DEF Order, vars
  <2>2. \A i \in Threads : i \in Unmerged' /\ Created(i)' => i \in Unmerged /\ Created(i)
    BY <1>1 DEF Unmerged, Created, Main, Threads, vars
  <2>3. /\ \A c \in inside' : LoopSorted(call'[c], array')
        /\ \A i \in Threads : i \in Unmerged' /\ Created(i)' /\ frames'[i] = <<>> =>
             Sorted(array', Left(i), Right(i))
        /\ main'[1] = "merge" /\ Main \notin inside' => Sorted(array', 0, Right(main'[2] - 1))
        /\ UNCHANGED <<input, n>>
    BY <1>1, <2>2 DEF Order, vars
  <2> QED
    BY <2>1, <2>3, OrderFrom
<1>2. Main \in Callers /\ Threads \subseteq Callers
  BY DEF Callers
<1>3. ASSUME NEW i \in Threads, SortFirst(i) PROVE Order'
  <2>1. PushedBy(i, "first", Top(i).low, Half(i))
    BY <1>3, SortFirstEffect
  <2>2. "first" # "second"
    OBVIOUS
  <2> QED
    BY <2>1, <2>2, OrderPushed
<1>4. ASSUME NEW i \in Threads, SortSecond(i) PROVE Order'
  <2>1. PushedBy(i, "second", Half(i) + 1, Top(i).high)
    BY <1>4, SortSecondEffect
  <2>2. Sorted(array, Top(i).low, Half(i))
    BY <1>4 DEF SortSecond, Sorting, Order, FramesSorted
  <2> QED
    BY <2>1, <2>2, OrderPushed
<1>5. ASSUME NEW i \in Threads, SortNone(i) PROVE Order'
  <2>1. PoppedBy(i) /\ i \in alive \ inside /\ UNCHANGED <<input, array, n, inside, call, alive, main>>
    BY <1>5, SortNoneEffect
  <2>2. frames[i] # <<>> /\ Top(i).low >= Top(i).high
    BY <1>5 DEF SortNone, Sorting
  <2>3. Sorted(array, Top(i).low, Top(i).high)
    <3>1. Top(i).low \in Int /\ Top(i).high \in Int
      BY <2>2, TopFrame
    <3>2. \A k \in Top(i).low .. Top(i).high : k = Top(i).low /\ k \in Index
      <4>1. \A k \in Top(i).low .. Top(i).high : k = Top(i).low /\ Left(i) <= k /\ k <= Right(i)
        BY <2>2, <3>1, TopBounds
      <4> QED
        BY <3>1, <4>1, SliceBlocks
    <3>3. \A k \in Top(i).low .. Top(i).high : array[k] <= array[k]
      BY <3>2, SortedIn
    <3> QED
      BY <3>2, <3>3 DEF Sorted
  <2>4. inside' = inside \ {i}
    BY <2>1
  <2> QED
    BY <2>1, <2>3, <2>4, OrderPopped
<1>6. ASSUME NEW i \in Threads, HalvesMerged(i) PROVE Order'
  <2>1. /\ LeftBy(i) /\ PoppedBy(i)
        /\ call[i].low = Top(i).low /\ call[i].high = Top(i).high
        /\ UNCHANGED <<input, array, n, alive, main>>
    BY <1>6, HalvesMergedEffect
  <2>2. /\ i \in inside /\ inside' = inside \ {i} /\ \A d \in Callers : d # i => call'[d] = call[d]
        /\ call[i] \in CallTypes /\ call[i].ind_array = call[i].high + 1
    BY <2>1 DEF LeftBy
  <2>3. \A d \in inside' : call'[d] = call[d]
    BY <2>2 DEF Types
  <2>4. Sorted(array, Top(i).low, Top(i).high)
    <3>1. Sorted(array, call[i].low, call[i].ind_array - 1)
      BY <2>2 DEF Order, LoopSorted
    <3>2. call[i].ind_array - 1 = call[i].high
      BY <2>2 DEF CallTypes
    <3> QED
      BY <2>1, <3>1, <3>2
  <2> QED
    BY <2>1, <2>2, <2>3, <2>4, OrderPopped
<1>7. ASSUME NEW i \in Threads, MergeHalves(i) PROVE Order'
  <2>1. EnteredBy(i, Top(i).low, Half(i), Top(i).high)
    BY <1>7, MergeHalvesEffect
  <2>2. i \in alive \ inside /\ frames[i] # <<>> /\ Top(i).at = "second"
    BY <1>7 DEF MergeHalves, Sorting
  <2>3. Sorted(array, Half(i) + 1, Top(i).high)
    BY <2>2 DEF Order, FramesSorted
  <2>4. Sorted(array, Top(i).low, Half(i))
    <3>1. Len(frames[i]) \in 1 .. Len(frames[i])
      BY <2>2, TopFrame
    <3>2. Sorted(array, frames[i][Len(frames[i])].low, HalfOf(frames[i][Len(frames[i])]))
      BY <2>2, <3>1 DEF Order, FramesSorted, Top
    <3> QED
      BY <2>2, <3>2, TopFrame DEF Top
  <2>5. Top(i).low \in Int /\ Half(i) \in Int /\ Top(i).high \in Int
    BY <2>2, TopFrame
  <2> QED
    BY <1>2, <2>1, <2>3, <2>4, <2>5, OrderEntered
<1>8. ASSUME NEW i \in Threads, MergeSlice(i) PROVE Order'
  <2>1. /\ EnteredBy(Main, Left(0), Left(i) - 1, Right(i))
        /\ main = <<"merge", i>> /\ Main \notin inside
    BY <1>8, MergeSliceEffect DEF MergeSlice
  <2>2. i \in 1 .. n /\ i \in 1 .. n - 1
    BY <2>1 DEF Types, Threads
  <2>3. /\ Left(0) = 0 /\ Left(i) \in Int /\ Right(i) \in Int
        /\ Right(i - 1) = Left(i) - 1
    BY <2>2, SliceFacts
  <2>4. Sorted(array, 0, Left(i) - 1)
    BY <2>1, <2>3 DEF Order
  <2>5. Sorted(array, Left(i), Right(i))
    <3>1. frames[i] = <<>>
      BY <2>1 DEF Control
    <3>2. i \in Unmerged /\ Created(i)
      BY <2>1 DEF Unmerged, Created
    <3> QED
      BY <3>1, <3>2 DEF Order
  <2>6. Left(i) - 1 + 1 = Left(i) /\ Left(i) - 1 \in Int /\ Left(0) \in Int
    BY <2>3
  <2> QED
    BY <1>2, <2>1, <2>3, <2>4, <2>5, <2>6, OrderEntered
<1>9. ASSUME NEW i \in Threads, ThreadStep(i) PROVE Order'
  BY <1>2, <1>3, <1>4, <1>5, <1>6, <1>7, <1>9, OrderTaken, OrderFinish DEF ThreadStep
<1>10. CASE MainStep
  BY <1>2, <1>8, <1>10, OrderTaken, OrderCreate, OrderJoin, OrderSliceMerged DEF MainStep
<1> QED
  BY <1>1, <1>9, <1>10 DEF Next

-----------------------------------------------------------------------------
(* Nothing is lost: the array is the input rearranged.                     *)

LEMMA RearrangedInit == Init => Rearranged
<1> SUFFICES ASSUME Init PROVE Rearranged
  OBVIOUS
<1> DEFINE p == [k \in Index |-> k]
<1>1. p \in Bijection(Index, Index)
  BY Fun_IsBij
<1>2. inside = {} /\ array = input
  BY DEF Init
<1>3. Rearranges(p)
  BY <1>2 DEF Rearranges
<1> QED
  BY <1>1, <1>3 DEF Rearranged

\* No number moves and no call of merge with something pending ends.
LEMMA RearrangedSame ==
  ASSUME Rearranged, UNCHANGED <<input, array>>, inside' \subseteq inside,
         \A d \in inside' : call'[d] = call[d],
         \A d \in inside \ inside' : Pending(call[d]) = {}
  PROVE  Rearranged'
<1>1. PICK p \in Bijection(Index, Index) : Rearranges(p)
  BY DEF Rearranged
<1>2. Index' = Index
  BY DEF Index, LENGTH_ARRAY
<1>3. ASSUME NEW k \in Index, \A c \in inside' : k \notin Pending(call'[c])
      PROVE  array'[k] = input'[p[k]]
  <2>1. \A c \in inside : k \notin Pending(call[c])
    BY <1>3
  <2> QED
    BY <1>1, <2>1 DEF Rearranges
<1>4. \A c \in inside' : \A k \in Pending(call'[c]) : PendingAt(call'[c], k) = input'[p[k]]
  BY <1>1 DEF Rearranges
<1>5. Rearranges(p)'
  BY <1>2, <1>3, <1>4 DEF Rearranges, Pending, PendingAt
<1> QED
  BY <1>1, <1>2, <1>5 DEF Rearranged

\* What a call of merge copies is what it has to write.
LEMMA RearrangedEntered ==
  ASSUME Types, Rearranged, NEW c \in Callers, NEW low \in Int, NEW half \in Int, NEW high \in Int,
         EnteredBy(c, low, half, high), low .. high \subseteq Index,
         \A d \in inside : Pending(call[d]) \cap low .. high = {}
  PROVE  Rearranged'
<1>1. PICK p \in Bijection(Index, Index) : Rearranges(p)
  BY DEF Rearranged
<1> DEFINE m == call'[c]
<1>2. /\ c \notin inside /\ inside' = inside \cup {c}
      /\ \A d \in Callers : d # c => call'[d] = call[d]
      /\ m.low = low /\ m.half = half /\ m.high = high /\ m.i = 0 /\ m.j = 0 /\ m.ind_array = low
      /\ \A k \in 0 .. half - low : m.left[k] = array[low + k]
      /\ \A k \in 0 .. high - half - 1 : m.right[k] = array[half + 1 + k]
      /\ UNCHANGED <<input, array>>
      /\ inside \subseteq Callers
  BY DEF EnteredBy, Types
<1>3. Index' = Index
  BY <1>2 DEF Index, LENGTH_ARRAY
<1> HIDE DEF m
<1>4. /\ Pending(m) = low .. high
      /\ \A k \in low .. high : PendingAt(m, k) = array[k]
  <2>1. Pending(m) = low .. high
    BY <1>2 DEF Pending
  <2>2. ASSUME NEW k \in low .. high PROVE PendingAt(m, k) = array[k]
    <3>1. CASE k <= half
      <4>1. k - low \in 0 .. half - low /\ low + (k - low) = k /\ 0 + (k - low) = k - low
            /\ k - low <= half - low - 0
        BY <3>1
      <4> QED
        BY <1>2, <4>1 DEF PendingAt
    <3>2. CASE ~(k <= half)
      <4>1. k - half - 1 \in 0 .. high - half - 1 /\ half + 1 + (k - half - 1) = k
            /\ ~(k - low <= half - low - 0)
        BY <3>2
      <4> QED
        BY <1>2, <4>1 DEF PendingAt
    <3> QED
      BY <3>1, <3>2
  <2> QED
    BY <2>1, <2>2
<1>5. ASSUME NEW k \in Index, \A d \in inside' : k \notin Pending(call'[d])
      PROVE  array'[k] = input'[p[k]]
  <2>1. \A d \in inside : k \notin Pending(call[d])
    BY <1>2, <1>5
  <2> QED
    BY <1>1, <1>2, <2>1 DEF Rearranges
<1>6. ASSUME NEW d \in inside', NEW k \in Pending(call'[d])
      PROVE  PendingAt(call'[d], k) = input'[p[k]]
  <2>1. CASE d = c
    <3>1. call'[d] = m
      BY <2>1 DEF m
    <3>2. k \in low .. high /\ k \in Index
      BY <1>4, <1>6, <3>1
    <3>3. array[k] = input[p[k]]
      BY <1>1, <3>2 DEF Rearranges
    <3> QED
      BY <1>2, <1>4, <3>1, <3>2, <3>3
  <2>2. CASE d # c
    BY <1>1, <1>2, <1>6, <2>2 DEF Rearranges
  <2> QED
    BY <2>1, <2>2
<1>7. Rearranges(p)'
  BY <1>3, <1>5, <1>6 DEF Rearranges, Pending, PendingAt
<1> QED
  BY <1>1, <1>3, <1>7 DEF Rearranged

\* The numbers pending in different calls of merge are apart.
LEMMA PendingApart ==
  ASSUME Types, Control, NEW c \in inside, NEW d \in inside, c # d
  PROVE  Pending(call[d]) \subseteq Reach(d) /\ Reach(c) \cap Pending(call[d]) = {}
<1>1. call[d] \in CallTypes /\ Arguments(call[d])
  BY DEF Types, Control
<1>2. Pending(call[d]) \subseteq Reach(d)
  <2>1. /\ call[d].low \in Int /\ call[d].high \in Int /\ call[d].ind_array \in Int
        /\ call[d].low <= call[d].ind_array
    BY <1>1, CallFacts
  <2> QED
    BY <2>1 DEF Pending, Reach
<1> QED
  BY <1>2, Disjoint

\* The next number of left is where it was expected.
LEMMA RearrangedLeft ==
  ASSUME Types, Control, Rearranged, NEW c \in Callers, TakeLeft(c)
  PROVE  Rearranged'
<1>1. PICK p \in Bijection(Index, Index) : Rearranges(p)
  BY DEF Rearranged
<1> DEFINE m == call[c]
           q == call'[c]
           w == call[c].ind_array
<1>2. /\ c \in inside /\ m \in CallTypes /\ Arguments(m)
      /\ w = m.ind_array /\ w \in m.low .. m.high
      /\ \A k \in Index : k # w => array'[k] = array[k]
      /\ \A d \in Callers : d # c => call'[d] = call[d]
      /\ q.low = m.low /\ q.half = m.half /\ q.high = m.high
      /\ q.left = m.left /\ q.right = m.right /\ q.ind_array = w + 1
      /\ q.i = m.i + 1 /\ q.j = m.j
      /\ m.i \in 0 .. m.half - m.low /\ array'[w] = m.left[m.i]
      /\ UNCHANGED <<input, inside>> /\ inside \subseteq Callers
  BY TakenLeft DEF TakenBy, Types
<1>3. Index' = Index
  BY <1>2 DEF Index, LENGTH_ARRAY
<1> HIDE DEF m, q, w
<1>4. /\ m.low \in Int /\ m.half \in Int /\ m.high \in Int /\ m.i \in Int /\ m.j \in Int /\ w \in Int
      /\ m.low .. m.high \subseteq Index
  BY <1>2, CallFacts
<1>5. PendingAt(m, w) = m.left[m.i] /\ w \in Pending(m) /\ w \in Index
  <2>1. w - w <= m.half - m.low - m.i /\ m.i + (w - w) = m.i /\ w \in Index
    BY <1>2, <1>4
  <2> QED
    BY <1>2, <2>1 DEF PendingAt, Pending
<1>6. ASSUME NEW k \in Pending(q)
      PROVE  k \in Pending(m) /\ PendingAt(q, k) = PendingAt(m, k)
  <2>1. k \in w + 1 .. m.high
    BY <1>2, <1>6 DEF Pending
  <2>2. /\ k - (w + 1) <= m.half - m.low - (m.i + 1) <=> k - w <= m.half - m.low - m.i
        /\ m.i + 1 + (k - (w + 1)) = m.i + (k - w)
    BY <1>4, <2>1
  <2> QED
    BY <1>2, <1>4, <2>1, <2>2 DEF Pending, PendingAt
<1>7. Pending(m) = Pending(q) \cup {w}
  BY <1>2, <1>4 DEF Pending
<1>8. ASSUME NEW k \in Index, \A d \in inside' : k \notin Pending(call'[d])
      PROVE  array'[k] = input'[p[k]]
  <2>1. CASE k = w
    BY <1>1, <1>2, <1>5, <2>1 DEF Rearranges, m
  <2>2. CASE k # w
    <3>1. k \notin Pending(m)
      BY <1>2, <1>7, <1>8, <2>2 DEF q
    <3>2. \A d \in inside : k \notin Pending(call[d])
      BY <1>2, <1>8, <3>1 DEF m
    <3> QED
      BY <1>1, <1>2, <2>2, <3>2 DEF Rearranges
  <2> QED
    BY <2>1, <2>2
<1>9. ASSUME NEW d \in inside', NEW k \in Pending(call'[d])
      PROVE  PendingAt(call'[d], k) = input'[p[k]]
  <2>1. CASE d = c
    <3>1. k \in Pending(m) /\ PendingAt(call'[d], k) = PendingAt(m, k)
      BY <1>6, <1>9, <2>1 DEF q
    <3> QED
      BY <1>1, <1>2, <3>1 DEF Rearranges, m
  <2>2. CASE d # c
    BY <1>1, <1>2, <1>9, <2>2 DEF Rearranges
  <2> QED
    BY <2>1, <2>2
<1>10. Rearranges(p)'
  BY <1>3, <1>8, <1>9 DEF Rearranges, Pending, PendingAt
<1> QED
  BY <1>1, <1>3, <1>10 DEF Rearranged

\* What stands at e comes to w, and what stands from w on moves up by one.
Rotated(w, e, k) == IF k = w THEN e ELSE IF w < k /\ k <= e THEN k - 1 ELSE k

LEMMA Rotation ==
  ASSUME NEW L \in Int, NEW w \in 0 .. L, NEW e \in 0 .. L, w <= e
  PROVE  [k \in 0 .. L |-> Rotated(w, e, k)] \in Bijection(0 .. L, 0 .. L)
<1> DEFINE q == [k \in 0 .. L |-> Rotated(w, e, k)]
<1>1. q \in [0 .. L -> 0 .. L]
  BY DEF Rotated
<1>2. ASSUME NEW a \in 0 .. L, NEW b \in 0 .. L, q[a] = q[b] PROVE a = b
  <2>1. Rotated(w, e, a) = Rotated(w, e, b)
    BY <1>2
  <2> HIDE DEF q
  <2> QED
    BY <2>1 DEF Rotated
<1>3. ASSUME NEW t \in 0 .. L PROVE \E s \in 0 .. L : q[s] = t
  <2>1. CASE t = e
    <3>1. q[w] = t
      BY <2>1 DEF Rotated
    <3> QED
      BY <3>1
  <2>2. CASE w <= t /\ t < e
    <3>1. t + 1 \in 0 .. L /\ q[t + 1] = t
      BY <2>2 DEF Rotated
    <3> QED
      BY <3>1
  <2>3. CASE t < w \/ t > e
    <3>1. q[t] = t
      BY <2>3 DEF Rotated
    <3> QED
      BY <3>1
  <2> QED
    BY <2>1, <2>2, <2>3
<1> HIDE DEF q
<1>4. q \in Bijection(0 .. L, 0 .. L)
  BY <1>1, <1>2, <1>3, Fun_IsBij
<1> QED
  BY <1>4 DEF q

\* The next number of right overtakes what is left of left.
LEMMA RearrangedRight ==
  ASSUME Types, Control, Rearranged, NEW c \in Callers, TakeRight(c)
  PROVE  Rearranged'
<1>1. PICK p \in Bijection(Index, Index) : Rearranges(p)
  BY DEF Rearranged
<1> DEFINE m == call[c]
           q == call'[c]
           w == call[c].ind_array
           e == call[c].half + 1 + call[c].j
<1>2. /\ c \in inside /\ m \in CallTypes /\ Arguments(m)
      /\ w = m.ind_array /\ w \in m.low .. m.high /\ e = m.half + 1 + m.j
      /\ \A k \in Index : k # w => array'[k] = array[k]
      /\ \A d \in Callers : d # c => call'[d] = call[d]
      /\ q.low = m.low /\ q.half = m.half /\ q.high = m.high
      /\ q.left = m.left /\ q.right = m.right /\ q.ind_array = w + 1
      /\ q.i = m.i /\ q.j = m.j + 1
      /\ m.j \in 0 .. m.high - m.half - 1 /\ array'[w] = m.right[m.j]
      /\ UNCHANGED <<input, inside>> /\ inside \subseteq Callers
  BY TakenRight DEF TakenBy, Types
<1>3. Index' = Index
  BY <1>2 DEF Index, LENGTH_ARRAY
<1>4. Reach(c) = m.low .. m.high /\ \A d \in inside : d # c => Reach(c) \cap Pending(call[d]) = {}
  BY <1>2, PendingApart DEF Reach
<1> HIDE DEF m, q, w, e
<1>5. /\ m.low \in Int /\ m.half \in Int /\ m.high \in Int /\ m.i \in Int /\ m.j \in Int /\ w \in Int
      /\ m.low .. m.high \subseteq Index
      /\ w = m.low + m.i + m.j /\ 0 <= m.i /\ m.i <= m.half - m.low + 1
  BY <1>2, CallFacts
<1>6. /\ e \in Int /\ w <= e /\ w \in m.low .. m.high /\ e \in m.low .. m.high
      /\ e - w = m.half - m.low - m.i + 1
  BY <1>2, <1>5
<1>7. \E f \in Bijection(Index, Index) : \A k \in Index : f[k] = p[Rotated(w, e, k)]
  <2> DEFINE r == [k \in Index |-> Rotated(w, e, k)]
             f == [k \in Index |-> p[r[k]]]
  <2>1. LENGTH_ARRAY - 1 \in Int
    BY DEF Types
  <2>2. w \in Index /\ e \in Index
    BY <1>5, <1>6
  <2>3. r \in Bijection(Index, Index)
    BY <1>6, <2>1, <2>2, Rotation DEF Index
  <2>4. \A k \in Index : f[k] = p[Rotated(w, e, k)]
    OBVIOUS
  <2> HIDE DEF r
  <2>5. f \in Bijection(Index, Index)
    BY <1>1, <2>3, Fun_BijTransitive
  <2> HIDE DEF f
  <2> QED
    BY <2>4, <2>5
<1>8. PICK s \in Bijection(Index, Index) : \A k \in Index : s[k] = p[Rotated(w, e, k)]
  BY <1>7
<1>9. e \in Pending(m) /\ PendingAt(m, e) = m.right[m.j] /\ e \in Index /\ w \in Index
  <2>1. ~(e - w <= m.half - m.low - m.i)
    BY <1>5, <1>6
  <2>2. e - m.half - 1 = m.j
    <3>1. e = m.half + 1 + m.j
      BY <1>2
    <3> QED
      BY <1>5, <3>1
  <2> QED
    BY <1>2, <1>5, <1>6, <2>1, <2>2 DEF PendingAt, Pending
<1>10. Pending(m) = Pending(q) \cup {w} /\ w \notin Pending(q) /\ Pending(m) \subseteq m.low .. m.high
  BY <1>2, <1>5 DEF Pending
<1>11. ASSUME NEW k \in Pending(q)
       PROVE  Rotated(w, e, k) \in Pending(m) /\ PendingAt(q, k) = PendingAt(m, Rotated(w, e, k))
  <2>1. k \in Int /\ w + 1 <= k /\ k <= m.high
    BY <1>2, <1>5, <1>11 DEF Pending
  <2>2. CASE k <= e
    <3>1. Rotated(w, e, k) = k - 1 /\ k - 1 \in w .. m.high
      BY <1>5, <1>6, <2>1, <2>2 DEF Rotated
    <3>2. /\ k - (w + 1) <= m.half - m.low - m.i /\ k - 1 - w <= m.half - m.low - m.i
          /\ m.i + (k - (w + 1)) = m.i + (k - 1 - w)
      BY <1>5, <1>6, <2>1, <2>2
    <3> QED
      BY <1>2, <3>1, <3>2 DEF Pending, PendingAt
  <2>3. CASE k > e
    <3>1. Rotated(w, e, k) = k /\ k \in w .. m.high
      BY <1>5, <1>6, <2>1, <2>3 DEF Rotated
    <3>2. ~(k - (w + 1) <= m.half - m.low - m.i) /\ ~(k - w <= m.half - m.low - m.i)
      BY <1>5, <1>6, <2>1, <2>3
    <3> QED
      BY <1>2, <3>1, <3>2 DEF Pending, PendingAt
  <2> QED
    BY <1>6, <2>1, <2>2, <2>3
<1>12. ASSUME NEW k \in Index, k \notin Pending(m) PROVE Rotated(w, e, k) = k
  <2>1. k \in Int /\ ~(w <= k /\ k <= m.high)
    BY <1>2, <1>12 DEF Pending, Index
  <2> QED
    BY <1>5, <1>6, <2>1 DEF Rotated
<1>13. ASSUME NEW k \in Index, \A d \in inside' : k \notin Pending(call'[d])
       PROVE  array'[k] = input'[s[k]]
  <2>1. CASE k = w
    <3>1. s[k] = p[e]
      BY <1>8, <2>1 DEF Rotated
    <3>2. PendingAt(m, e) = input[p[e]]
      BY <1>1, <1>2, <1>9 DEF Rearranges, m
    <3> QED
      BY <1>2, <1>9, <2>1, <3>1, <3>2
  <2>2. CASE k # w
    <3>1. k \notin Pending(m)
      BY <1>2, <1>10, <1>13, <2>2 DEF q
    <3>2. \A d \in inside : k \notin Pending(call[d])
      BY <1>2, <1>13, <3>1 DEF m
    <3>3. s[k] = p[k]
      BY <1>8, <1>12, <3>1
    <3> QED
      BY <1>1, <1>2, <2>2, <3>2, <3>3 DEF Rearranges
  <2> QED
    BY <2>1, <2>2
<1>14. ASSUME NEW d \in inside', NEW k \in Pending(call'[d])
       PROVE  PendingAt(call'[d], k) = input'[s[k]]
  <2>1. CASE d = c
    <3>1. call'[d] = q /\ k \in Pending(q)
      BY <1>14, <2>1 DEF q
    <3>2. k \in Index
      BY <1>5, <1>10, <3>1
    <3>3. PendingAt(m, Rotated(w, e, k)) = input[p[Rotated(w, e, k)]]
      BY <1>1, <1>2, <1>11, <3>1 DEF Rearranges, m
    <3> QED
      BY <1>2, <1>8, <1>11, <3>1, <3>2, <3>3
  <2>2. CASE d # c
    <3>1. d \in inside /\ call'[d] = call[d] /\ k \in Pending(call[d])
      BY <1>2, <1>14, <2>2
    <3>2. k \notin Pending(m) /\ k \in Index
      <4>1. k \notin Reach(c)
        BY <1>4, <2>2, <3>1
      <4>2. Pending(call[d]) \subseteq Reach(d) /\ Reach(d) \subseteq Index
        <5>1. Pending(call[d]) \subseteq Reach(d)
          BY <1>2, <2>2, <3>1, PendingApart
        <5>2. call[d] \in CallTypes /\ Arguments(call[d])
          BY <1>2, <3>1 DEF Types, Control
        <5> QED
          BY <5>1, <5>2, CallFacts DEF Reach
      <4> QED
        BY <1>4, <1>10, <3>1, <4>1, <4>2
    <3>3. s[k] = p[k]
      BY <1>8, <1>12, <3>2
    <3> QED
      BY <1>1, <1>2, <3>1, <3>3 DEF Rearranges
  <2> QED
    BY <2>1, <2>2
<1>15. Rearranges(s)'
  BY <1>3, <1>13, <1>14 DEF Rearranges, Pending, PendingAt
<1> QED
  BY <1>3, <1>15 DEF Rearranged

LEMMA NoRaceNext == Types' /\ Control' => NoRace'
  BY ControlNoRace, PTL

LEMMA RearrangedNext ==
  ASSUME Types, Control, Rearranged, [Next]_vars, Types', Control'
  PROVE  Rearranged'
<1>1. CASE UNCHANGED vars
  BY <1>1, RearrangedSame DEF vars
<1>2. Main \in Callers /\ Threads \subseteq Callers
  BY DEF Callers
<1>3. ASSUME NEW c \in Callers, Take(c) PROVE Rearranged'
  BY <1>3, RearrangedLeft, RearrangedRight DEF Take
<1>4. ASSUME NEW c \in Callers, NEW low \in Int, NEW half \in Int, NEW high \in Int,
             EnteredBy(c, low, half, high)
      PROVE  Rearranged'
  <2>1. /\ c \notin inside /\ inside' = inside \cup {c} /\ inside \subseteq Callers
        /\ call'[c] \in CallTypes /\ Arguments(call'[c])
        /\ call'[c].low = low /\ call'[c].high = high
        /\ \A d \in Callers : d # c => call'[d] = call[d]
    BY <1>4 DEF EnteredBy, Types
  <2>2. low .. high \subseteq Index
    BY <2>1, CallFacts
  <2>3. ASSUME NEW d \in inside PROVE Pending(call[d]) \cap low .. high = {}
    <3>1. d \in inside' /\ c \in inside' /\ d # c /\ call'[d] = call[d]
      BY <2>1
    <3>2. (call'[c].low .. call'[c].high) \cap (call'[d].low .. call'[d].high) = {}
      BY <3>1, NoRaceNext DEF NoRace, Reach
    <3>3. call[d] \in CallTypes /\ Arguments(call[d])
      BY DEF Types, Control
    <3>4. Pending(call[d]) \subseteq call[d].low .. call[d].high
      BY <3>3, CallFacts DEF Pending
    <3> QED
      BY <2>1, <3>1, <3>2, <3>4
  <2> QED
    BY <1>4, <2>2, <2>3, RearrangedEntered
<1>5. ASSUME NEW c, LeftBy(c), UNCHANGED <<input, array>> PROVE Rearranged'
  <2>1. /\ c \in inside /\ inside' = inside \ {c} /\ \A d \in Callers : d # c => call'[d] = call[d]
        /\ call[c] \in CallTypes /\ call[c].ind_array = call[c].high + 1
    BY <1>5 DEF LeftBy
  <2>2. Pending(call[c]) = {}
    BY <2>1 DEF Pending, CallTypes
  <2>3. inside' \subseteq inside /\ \A d \in inside \ inside' : d = c
    BY <2>1
  <2>4. \A d \in inside' : call'[d] = call[d]
    BY <2>1 DEF Types
  <2> QED
    BY <1>5, <2>2, <2>3, <2>4, RearrangedSame
<1>6. ASSUME UNCHANGED <<input, array, inside, call>> PROVE Rearranged'
  BY <1>6, RearrangedSame
<1>7. ASSUME NEW i \in Threads, MergeHalves(i) PROVE Rearranged'
  <2>1. frames[i] # <<>>
    BY <1>7 DEF MergeHalves, Sorting
  <2>2. Top(i).low \in Int /\ Half(i) \in Int /\ Top(i).high \in Int
    BY <2>1, TopFrame
  <2> QED
    BY <1>2, <1>4, <1>7, <2>2, MergeHalvesEffect
<1>8. ASSUME NEW i \in Threads, MergeSlice(i) PROVE Rearranged'
  <2>1. Left(0) \in Int /\ Left(i) - 1 \in Int /\ Right(i) \in Int
    BY SliceFacts
  <2> QED
    BY <1>2, <1>4, <1>8, <2>1, MergeSliceEffect
<1>9. ASSUME NEW i \in Threads, HalvesMerged(i) PROVE Rearranged'
  BY <1>5, <1>9, HalvesMergedEffect
<1>10. ASSUME NEW i \in Threads, SliceMerged(i) PROVE Rearranged'
  BY <1>5, <1>10, SliceMergedEffect
<1>11. ASSUME NEW i \in Threads, SortFirst(i) \/ SortNone(i) \/ SortSecond(i) \/ Finish(i) PROVE Rearranged'
  BY <1>6, <1>11 DEF SortFirst, SortNone, SortSecond, Calls, Finish
<1>12. ASSUME NEW i \in Threads, Create(i) \/ Join(i) PROVE Rearranged'
  BY <1>6, <1>12 DEF Create, Join
<1>13. ASSUME NEW i \in Threads, ThreadStep(i) PROVE Rearranged'
  BY <1>2, <1>3, <1>7, <1>9, <1>11, <1>13 DEF ThreadStep
<1>14. CASE MainStep
  BY <1>2, <1>3, <1>8, <1>10, <1>12, <1>14 DEF MainStep
<1> QED
  BY <1>1, <1>13, <1>14 DEF Next

-----------------------------------------------------------------------------
(* The theorems.                                                           *)

LEMMA MergeInvInit == Init => MergeInv
<1> SUFFICES ASSUME Init PROVE MergeInv
  OBVIOUS
<1>1. inside = {} /\ alive = {} /\ main[1] # "merge" /\ \A i \in Threads : frames[i] = <<>>
  BY DEF Init
<1> QED
  BY TypesInit, ControlInit, OrderInit, RearrangedInit DEF MergeInv

LEMMA MergeInvNext == MergeInv /\ [Next]_vars => MergeInv'
<1> SUFFICES ASSUME MergeInv, [Next]_vars PROVE MergeInv'
  OBVIOUS
<1>1. Types /\ Control /\ Order /\ Rearranged
  BY DEF MergeInv
<1>2. Types' /\ Control'
  BY <1>1, TypesNext, ControlNext
<1>3. Order' /\ Rearranged'
  BY <1>1, <1>2, OrderNext, RearrangedNext
<1> QED
  BY <1>2, <1>3 DEF MergeInv

\* merge_threads.c, for every array and every number of threads: its calls stay
\* in their blocks, what they have returned from is sorted, and at every moment
\* the array, with the numbers that wait in the copies in their place, is the
\* input rearranged.
THEOREM MergeInvariant == Spec => []MergeInv
  BY MergeInvInit, MergeInvNext, PTL DEF Spec

\* Calls of merge that overlap in time touch no element in common and none
\* outside the array, so that merge_threads.c needs no lock.
THEOREM NoRaceAtAll == Spec => []NoRace
<1>1. MergeInv => NoRace
  BY ControlNoRace DEF MergeInv
<1> QED
  BY <1>1, MergeInvariant, PTL

\* Whenever main turns to slice i, the slices before it are one sorted block.
THEOREM PrefixesSorted == Spec => []PrefixSorted
<1>1. MergeInv => PrefixSorted
  <2> SUFFICES ASSUME Types, Order, main[1] = "merge", main[2] < n, Main \notin inside
               PROVE  Sorted(array, 0, Left(main[2]) - 1)
    BY DEF MergeInv, PrefixSorted
  <2>1. Sorted(array, 0, Right(main[2] - 1))
    BY DEF Order
  <2>2. main[2] \in 1 .. n - 1
    BY DEF Types, Threads
  <2> QED
    BY <2>1, <2>2, SliceFacts
<1> QED
  BY <1>1, MergeInvariant, PTL

\* A rearrangement holds every value as often.
LEMMA SameCounts ==
  ASSUME NEW D, IsFiniteSet(D), NEW a, NEW b, DOMAIN a = D, DOMAIN b = D,
         NEW p \in Bijection(D, D), \A k \in D : a[k] = b[p[k]], NEW v
  PROVE  Count(a, v) = Count(b, v)
<1> DEFINE S == {k \in D : a[k] = v}
           T == {k \in D : b[k] = v}
           f == [k \in S |-> p[k]]
<1>1. /\ p \in [D -> D]
      /\ \A k, m \in D : p[k] = p[m] => k = m
      /\ \A t \in D : \E k \in D : p[k] = t
  BY Fun_BijectionProperties
<1>2. f \in [S -> T] /\ \A k, m \in S : f[k] = f[m] => k = m
  BY <1>1
<1>3. \A t \in T : \E k \in S : f[k] = t
  BY <1>1
<1>4. IsFiniteSet(S)
  BY FS_Subset
<1>5. Count(a, v) = Cardinality(S) /\ Count(b, v) = Cardinality(T)
  BY DEF Count
<1> HIDE DEF S, T, f
<1>6. f \in Bijection(S, T)
  BY <1>2, <1>3, Fun_IsBij
<1>7. ExistsBijection(S, T)
  BY <1>6 DEF ExistsBijection
<1> QED
  BY <1>4, <1>5, <1>7, FS_Bijection

\* What main prints is the numbers that were read, each as often, in order.
THEOREM SortedPrinted == Spec => []PrintsSorted
<1>1. MergeInv => PrintsSorted
  <2> SUFFICES ASSUME MergeInv, Done
               PROVE  Sorted(array, 0, LENGTH_ARRAY - 1) /\ \A v \in Values : Count(array, v) = Count(input, v)
    BY DEF PrintsSorted
  <2>1. Types /\ Control /\ Order /\ Rearranged
    BY DEF MergeInv
  <2>2. main[1] = "merge" /\ main[2] = n
    BY <2>1 DEF Done, Types, Threads
  <2>3. inside = {}
    BY <2>1, <2>2 DEF Control, InMerge, MainInMerge, Types, Callers
  <2>4. Sorted(array, 0, LENGTH_ARRAY - 1)
    BY <2>1, <2>2, <2>3, SliceFacts DEF Order
  <2>5. PICK p \in Bijection(Index, Index) : Rearranges(p)
    BY <2>1 DEF Rearranged
  <2>6. \A k \in Index : array[k] = input[p[k]]
    BY <2>3, <2>5 DEF Rearranges
  <2>7. LENGTH_ARRAY \in Nat /\ DOMAIN array = Index /\ DOMAIN input = Index
    BY <2>1 DEF Types
  <2>8. IsFiniteSet(Index)
    <3>1. 0 \in Int /\ LENGTH_ARRAY - 1 \in Int
      BY <2>7
    <3> QED
      BY <3>1, FS_Interval DEF Index
  <2>9. \A v \in Values : Count(array, v) = Count(input, v)
    BY <2>5, <2>6, <2>7, <2>8, SameCounts
  <2> QED
    BY <2>4, <2>9
<1> QED
  BY <1>1, MergeInvariant, PTL

-----------------------------------------------------------------------------
(* What is sorted of the same numbers is the same.                          *)

\* p shows that b is a rearrangement of a.
Permutes(D, a, b, p) == p \in Bijection(D, D) /\ \A k \in D : b[k] = a[p[k]]

LEMMA UpTo ==
  ASSUME NEW j \in Int, -1 <= j
  PROVE  IsFiniteSet(0 .. j) /\ Cardinality(0 .. j) = j + 1
  BY FS_Interval

\* What is sorted of the same numbers is the same: of two sorted arrays with
\* a[k] < b[k] the first holds more numbers up to a[k].
LEMMA NotBelow ==
  ASSUME NEW top \in Int, NEW a, NEW b, NEW c, NEW p, NEW q, NEW k \in 0 .. top,
         \A x \in 0 .. top : a[x] \in Int /\ b[x] \in Int,
         Sorted(a, 0, top), Sorted(b, 0, top),
         Permutes(0 .. top, c, a, p), Permutes(0 .. top, c, b, q)
  PROVE  ~(a[k] < b[k])
<1> SUFFICES ASSUME a[k] < b[k] PROVE FALSE
  OBVIOUS
<1> DEFINE D == 0 .. top
           f == [x \in 0 .. k |-> CHOOSE y \in D : q[y] = p[x]]
<1>1. /\ p \in [D -> D]
      /\ \A x, y \in D : p[x] = p[y] => x = y
      /\ \A t \in D : \E y \in D : q[y] = t
  <2>1. p \in Bijection(D, D) /\ q \in Bijection(D, D)
    BY DEF Permutes
  <2> HIDE DEF D, f
  <2>2. p \in [D -> D] /\ \A x, y \in D : p[x] = p[y] => x = y
    BY <2>1, Fun_BijectionProperties
  <2>3. \A t \in D : \E y \in D : q[y] = t
    BY <2>1, Fun_BijectionProperties
  <2> QED
    BY <2>2, <2>3
<1>2. ASSUME NEW x \in 0 .. k PROVE f[x] \in 0 .. k - 1 /\ q[f[x]] = p[x] /\ x \in D
  <2>1. x \in D /\ p[x] \in D
    <3>1. x \in D
      OBVIOUS
    <3> HIDE DEF D, f
    <3> QED
      BY <1>1, <3>1
  <2>2. \E y \in D : q[y] = p[x]
    BY <1>1, <2>1
  <2>3. f[x] \in D /\ q[f[x]] = p[x]
    BY <2>2
  <2>4. b[f[x]] = a[x] /\ a[x] <= a[k]
    BY <2>1, <2>3 DEF Permutes, Sorted
  <2>5. ~(k <= f[x])
    <3> SUFFICES ASSUME k <= f[x] PROVE FALSE
      OBVIOUS
    <3>1. b[k] <= b[f[x]]
      BY <2>3 DEF Sorted
    <3> QED
      BY <2>1, <2>3, <2>4, <3>1
  <2> QED
    BY <2>1, <2>3, <2>5
<1> HIDE DEF f, D
<1>3. /\ IsFiniteSet(0 .. k) /\ IsFiniteSet(0 .. k - 1)
      /\ Cardinality(0 .. k - 1) < Cardinality(0 .. k)
  <2>1. k \in Int /\ k - 1 \in Int /\ -1 <= k /\ -1 <= k - 1
    OBVIOUS
  <2>2. IsFiniteSet(0 .. k) /\ Cardinality(0 .. k) = k + 1
    BY <2>1, UpTo
  <2>3. IsFiniteSet(0 .. k - 1) /\ Cardinality(0 .. k - 1) = k - 1 + 1
    BY <2>1, UpTo
  <2> QED
    BY <2>1, <2>2, <2>3
<1>4. f \in [0 .. k -> 0 .. k - 1]
  BY <1>2 DEF f
<1>5. \E x, y \in 0 .. k : x # y /\ f[x] = f[y]
  BY <1>3, <1>4, FS_PigeonHole
<1>6. PICK x \in 0 .. k, y \in 0 .. k : x # y /\ f[x] = f[y]
  BY <1>5
<1>7. p[x] = p[y] /\ x \in D /\ y \in D
  BY <1>2, <1>6
<1> QED
  BY <1>1, <1>6, <1>7

LEMMA SortedUnique ==
  ASSUME NEW top \in Int, NEW a \in [0 .. top -> Int], NEW b \in [0 .. top -> Int], NEW c, NEW p, NEW q,
         Sorted(a, 0, top), Sorted(b, 0, top),
         Permutes(0 .. top, c, a, p), Permutes(0 .. top, c, b, q)
  PROVE  a = b
<1>1. ASSUME NEW k \in 0 .. top PROVE a[k] = b[k]
  <2>1. ~(a[k] < b[k]) /\ ~(b[k] < a[k])
    BY NotBelow
  <2> QED
    BY <2>1
<1> QED
  BY <1>1

-----------------------------------------------------------------------------
(* merge.c: a turn of its loops.                                           *)

\* The halves arr[l..m] and arr[m+1..r] of a have been merged up to L[i] and R[j]:
\* what is written is sorted and not above what is not, and arr is a rearranged
\* by a p that has what is left of L and of R stand behind it, in this order.
MergedTo(top, a, l, m, r, arr, i, j) ==
  /\ i \in 0 .. m - l + 1 /\ j \in 0 .. r - m
  /\ arr \in [0 .. top -> Int]
  /\ \A k \in 0 .. top : k < l \/ k > r => arr[k] = a[k]
  /\ Sorted(arr, l, l + i + j - 1)
  /\ \A k \in l .. l + i + j - 1 :
       /\ \A x \in l + i .. m : arr[k] <= a[x]
       /\ \A y \in m + 1 + j .. r : arr[k] <= a[y]
  /\ \E p \in Bijection(0 .. top, 0 .. top) :
       /\ \A k \in 0 .. top : k < l + i + j \/ k > r => arr[k] = a[p[k]]
       /\ \A k \in l + i + j .. m + j : p[k] = k - j
       /\ \A k \in m + j + 1 .. r : p[k] = k

SortedHalves(top, a, l, m, r) ==
  /\ top \in Int /\ l \in Int /\ m \in Int /\ r \in Int
  /\ 0 <= l /\ l <= m /\ m < r /\ r <= top
  /\ a \in [0 .. top -> Int]
  /\ Sorted(a, l, m) /\ Sorted(a, m + 1, r)

\* v is written at w, behind the sorted part of arr, and b is what arr has become.
Written(top, arr, b, l, w, v) ==
  /\ b \in [0 .. top -> Int]
  /\ b[w] = v /\ \A k \in 0 .. top : k # w => b[k] = arr[k]
  /\ Sorted(b, l, w)

NoneAbove(arr, l, w, v) == \A k \in l .. w - 1 : arr[k] <= v

LEMMA WrittenSorted ==
  ASSUME NEW top, NEW arr, NEW l, NEW w, NEW v, NEW b,
         top \in Int, arr \in [0 .. top -> Int], l \in 0 .. top, w \in l .. top, v \in Int,
         Sorted(arr, l, w - 1), NoneAbove(arr, l, w, v), b = [arr EXCEPT ![w] = v]
  PROVE  Written(top, arr, b, l, w, v)
<1>a. \A k \in l .. w - 1 : arr[k] <= v
  BY DEF NoneAbove
<1>1. b \in [0 .. top -> Int] /\ b[w] = v /\ \A k \in 0 .. top : k # w => b[k] = arr[k]
  OBVIOUS
<1>2. ASSUME NEW k \in l .. w, NEW q \in l .. w, k <= q PROVE b[k] <= b[q]
  <2>1. k \in 0 .. top /\ q \in 0 .. top /\ arr[k] \in Int /\ arr[q] \in Int
    OBVIOUS
  <2>2. CASE q = w
    BY <1>1, <1>a, <2>1, <2>2
  <2>3. CASE q # w
    <3>1. k \in l .. w - 1 /\ q \in l .. w - 1
      BY <1>2, <2>3
    <3>2. arr[k] <= arr[q]
      BY <1>2, <3>1 DEF Sorted
    <3> QED
      BY <1>1, <2>1, <3>1, <3>2
  <2> QED
    BY <2>2, <2>3
<1>3. Sorted(b, l, w)
  BY <1>2 DEF Sorted
<1> QED
  BY <1>1, <1>3, Zenon DEF Written

\* What both kinds of turn know of the arguments and of what is written.
MergingFacts(top, a, l, m, r, arr, i, j, w) ==
  /\ top \in Int /\ l \in Int /\ m \in Int /\ r \in Int /\ i \in Int /\ j \in Int /\ w \in Int
  /\ 0 <= l /\ l <= m /\ m < r /\ r <= top
  /\ 0 <= i /\ i <= m - l + 1 /\ 0 <= j /\ j <= r - m /\ l <= w
  /\ a \in [0 .. top -> Int] /\ arr \in [0 .. top -> Int]
  /\ Sorted(a, l, m) /\ Sorted(a, m + 1, r) /\ Sorted(arr, l, w - 1)
  /\ \A k \in 0 .. top : k < l \/ k > r => arr[k] = a[k]
  /\ \A k \in l .. w - 1 : /\ \A x \in l + i .. m : arr[k] <= a[x]
                           /\ \A y \in m + 1 + j .. r : arr[k] <= a[y]

\* What p has to do with the numbers that are written and with those that are not.
Follows(top, a, m, r, arr, j, w, p) ==
  /\ p \in Bijection(0 .. top, 0 .. top)
  /\ \A k \in 0 .. top : k < w \/ k > r => arr[k] = a[p[k]]
  /\ \A k \in w .. m + j : p[k] = k - j
  /\ \A k \in m + j + 1 .. r : p[k] = k

LEMMA MergedFacts ==
  ASSUME NEW top, NEW a, NEW l, NEW m, NEW r, NEW arr, NEW i, NEW j,
         SortedHalves(top, a, l, m, r), MergedTo(top, a, l, m, r, arr, i, j),
         NEW w, w = l + i + j
  PROVE  /\ MergingFacts(top, a, l, m, r, arr, i, j, w)
         /\ \E p : Follows(top, a, m, r, arr, j, w, p)
<1>1. /\ top \in Int /\ l \in Int /\ m \in Int /\ r \in Int /\ i \in Int /\ j \in Int /\ w \in Int
      /\ 0 <= l /\ l <= m /\ m < r /\ r <= top
      /\ 0 <= i /\ i <= m - l + 1 /\ 0 <= j /\ j <= r - m /\ l <= w
  BY DEF SortedHalves, MergedTo
<1>2. w - 1 = l + i + j - 1
  BY <1>1
<1>3. MergingFacts(top, a, l, m, r, arr, i, j, w)
  BY <1>1, <1>2, Zenon DEF SortedHalves, MergedTo, MergingFacts
<1>4. \E p : Follows(top, a, m, r, arr, j, w, p)
  BY Zenon DEF MergedTo, Follows
<1> QED
  BY <1>3, <1>4

\* arr[k] = L[i]
LEMMA TurnLeft ==
  ASSUME NEW top, NEW a, NEW l, NEW m, NEW r, NEW arr, NEW i, NEW j,
         SortedHalves(top, a, l, m, r), MergedTo(top, a, l, m, r, arr, i, j),
         i <= m - l, j < r - m => a[l + i] <= a[m + 1 + j],
         NEW w, w = l + i + j, NEW v, v = a[l + i], NEW b, b = [arr EXCEPT ![w] = v]
  PROVE  MergedTo(top, a, l, m, r, b, i + 1, j)
<1>a. MergingFacts(top, a, l, m, r, arr, i, j, w) /\ \E q : Follows(top, a, m, r, arr, j, w, q)
  BY MergedFacts, Zenon
<1>n. /\ top \in Int /\ l \in Int /\ m \in Int /\ r \in Int /\ i \in Int /\ j \in Int /\ w \in Int
      /\ 0 <= l /\ l <= m /\ m < r /\ r <= top
      /\ 0 <= i /\ i <= m - l + 1 /\ 0 <= j /\ j <= r - m /\ l <= w
  BY <1>a, Zenon DEF MergingFacts
<1>s. arr \in [0 .. top -> Int] /\ Sorted(arr, l, w - 1)
  BY <1>a, Zenon DEF MergingFacts
<1>1. /\ top \in Int /\ l \in Int /\ m \in Int /\ r \in Int /\ i \in Int /\ j \in Int /\ w \in Int
      /\ 0 <= l /\ l <= m /\ m < r /\ r <= top
      /\ 0 <= i /\ i <= m - l + 1 /\ 0 <= j /\ j <= r - m /\ l <= w
      /\ a \in [0 .. top -> Int] /\ arr \in [0 .. top -> Int]
      /\ Sorted(a, l, m) /\ Sorted(a, m + 1, r) /\ Sorted(arr, l, w - 1)
      /\ \A k \in 0 .. top : k < l \/ k > r => arr[k] = a[k]
      /\ \A k \in l .. w - 1 : /\ \A x \in l + i .. m : arr[k] <= a[x]
                               /\ \A y \in m + 1 + j .. r : arr[k] <= a[y]
  BY <1>a, Zenon DEF MergingFacts
<1>b. PICK p : Follows(top, a, m, r, arr, j, w, p)
  BY <1>a
<1>2. /\ p \in Bijection(0 .. top, 0 .. top)
      /\ \A k \in 0 .. top : k < w \/ k > r => arr[k] = a[p[k]]
      /\ \A k \in w .. m + j : p[k] = k - j
      /\ \A k \in m + j + 1 .. r : p[k] = k
  BY <1>b, Zenon DEF Follows
<1>3. /\ w <= m + j /\ w <= r /\ w - j = l + i /\ l + i \in 0 .. top /\ l + i \in l + i .. m
      /\ l + i \in l .. m /\ l \in 0 .. top /\ w \in l .. top
  BY <1>1
<1>4. v \in Int /\ \A k \in l .. w - 1 : arr[k] <= v
  BY <1>1, <1>3
<1>5. /\ b \in [0 .. top -> Int]
      /\ b[w] = v /\ \A k \in 0 .. top : k # w => b[k] = arr[k]
      /\ Sorted(b, l, w)
  <2>1. NoneAbove(arr, l, w, v)
    BY <1>4, Zenon DEF NoneAbove
  <2>2. Written(top, arr, b, l, w, v)
    BY <1>n, <1>s, <1>3, <1>4, <2>1, WrittenSorted
  <2> QED
    BY <2>2, Zenon DEF Written
<1>6. ASSUME NEW k \in l .. w
      PROVE  /\ \A x \in l + i + 1 .. m : b[k] <= a[x]
             /\ \A y \in m + 1 + j .. r : b[k] <= a[y]
  <2>1. k \in 0 .. top /\ (k # w => k \in l .. w - 1)
    BY <1>n, <1>3
  <2>2. ASSUME NEW x \in l + i + 1 .. m PROVE b[k] <= a[x]
    <3>1. x \in l .. m /\ l + i <= x /\ x \in l + i .. m
      BY <1>1
    <3>2. CASE k = w
      BY <1>1, <1>3, <1>5, <3>1, <3>2 DEF Sorted
    <3>3. CASE k # w
      BY <1>1, <1>5, <2>1, <3>1, <3>3
    <3> QED
      BY <3>2, <3>3
  <2>3. ASSUME NEW y \in m + 1 + j .. r PROVE b[k] <= a[y]
    <3>1. /\ y \in m + 1 .. r /\ m + 1 + j <= y /\ j < r - m /\ m + 1 + j \in m + 1 .. r
          /\ y \in 0 .. top /\ m + 1 + j \in 0 .. top
      BY <1>1
    <3>2. CASE k = w
      <4>1. v <= a[m + 1 + j] /\ a[m + 1 + j] <= a[y]
        BY <1>1, <3>1 DEF Sorted
      <4>2. a[y] \in Int /\ a[m + 1 + j] \in Int
        BY <1>1, <3>1
      <4> QED
        BY <1>4, <1>5, <3>2, <4>1, <4>2
    <3>3. CASE k # w
      BY <1>1, <1>5, <2>1, <3>3
    <3> QED
      BY <3>2, <3>3
  <2> QED
    BY <2>2, <2>3
<1>7. ASSUME NEW k \in 0 .. top, k < w + 1 \/ k > r PROVE b[k] = a[p[k]]
  <2>1. CASE k = w
    <3>1. w \in w .. m + j
      BY <1>1, <1>3
    <3> QED
      BY <1>2, <1>3, <1>5, <2>1, <3>1
  <2>2. CASE k # w
    <3>1. k < w \/ k > r
      BY <1>1, <1>7, <2>2
    <3> QED
      BY <1>2, <1>5, <2>2, <3>1
  <2> QED
    BY <2>1, <2>2
<1>8. \A k \in 0 .. top : k < l \/ k > r => b[k] = a[k]
  <2>1. \A k \in 0 .. top : k < l \/ k > r => k # w
    BY <1>n, <1>3
  <2> QED
    BY <1>1, <1>5, <2>1
<1>9. /\ i + 1 \in 0 .. m - l + 1 /\ j \in 0 .. r - m
      /\ l + (i + 1) + j - 1 = w /\ l + (i + 1) = l + i + 1 /\ l + (i + 1) + j = w + 1
  BY <1>1
<1>10. \A k \in w + 1 .. m + j : p[k] = k - j
  BY <1>1, <1>2
<1> QED
  BY <1>2, <1>5, <1>6, <1>7, <1>8, <1>9, <1>10 DEF MergedTo

\* arr[k] = R[j]: it overtakes what is left of L.
LEMMA TurnRight ==
  ASSUME NEW top, NEW a, NEW l, NEW m, NEW r, NEW arr, NEW i, NEW j,
         SortedHalves(top, a, l, m, r), MergedTo(top, a, l, m, r, arr, i, j),
         j < r - m, i <= m - l => a[m + 1 + j] < a[l + i],
         NEW w, w = l + i + j, NEW v, v = a[m + 1 + j], NEW b, b = [arr EXCEPT ![w] = v]
  PROVE  MergedTo(top, a, l, m, r, b, i, j + 1)
<1>a. MergingFacts(top, a, l, m, r, arr, i, j, w) /\ \E q : Follows(top, a, m, r, arr, j, w, q)
  BY MergedFacts, Zenon
<1>n. /\ top \in Int /\ l \in Int /\ m \in Int /\ r \in Int /\ i \in Int /\ j \in Int /\ w \in Int
      /\ 0 <= l /\ l <= m /\ m < r /\ r <= top
      /\ 0 <= i /\ i <= m - l + 1 /\ 0 <= j /\ j <= r - m /\ l <= w
  BY <1>a, Zenon DEF MergingFacts
<1>s. arr \in [0 .. top -> Int] /\ Sorted(arr, l, w - 1)
  BY <1>a, Zenon DEF MergingFacts
<1>1. /\ top \in Int /\ l \in Int /\ m \in Int /\ r \in Int /\ i \in Int /\ j \in Int /\ w \in Int
      /\ 0 <= l /\ l <= m /\ m < r /\ r <= top
      /\ 0 <= i /\ i <= m - l + 1 /\ 0 <= j /\ j <= r - m /\ l <= w
      /\ a \in [0 .. top -> Int] /\ arr \in [0 .. top -> Int]
      /\ Sorted(a, l, m) /\ Sorted(a, m + 1, r) /\ Sorted(arr, l, w - 1)
      /\ \A k \in 0 .. top : k < l \/ k > r => arr[k] = a[k]
      /\ \A k \in l .. w - 1 : /\ \A x \in l + i .. m : arr[k] <= a[x]
                               /\ \A y \in m + 1 + j .. r : arr[k] <= a[y]
  BY <1>a, Zenon DEF MergingFacts
<1>b. PICK p : Follows(top, a, m, r, arr, j, w, p)
  BY <1>a
<1>2. /\ p \in Bijection(0 .. top, 0 .. top)
      /\ \A k \in 0 .. top : k < w \/ k > r => arr[k] = a[p[k]]
      /\ \A k \in w .. m + j : p[k] = k - j
      /\ \A k \in m + j + 1 .. r : p[k] = k
  BY <1>b, Zenon DEF Follows
<1> DEFINE e == m + 1 + j
<1>3. /\ e \in Int /\ e = m + 1 + j /\ w <= e /\ e <= r /\ e \in 0 .. top /\ e \in m + 1 + j .. r
      /\ e \in m + 1 .. r /\ l \in 0 .. top /\ w \in l .. top /\ w \in 0 .. top
      /\ e \in m + j + 1 .. r
  BY <1>1
<1> HIDE DEF e
<1>v. v = a[e] /\ v \in Int
  BY <1>1, <1>3
<1>4. \A k \in l .. w - 1 : arr[k] <= v
  BY <1>1, <1>3, <1>v
<1>5. /\ b \in [0 .. top -> Int]
      /\ b[w] = v /\ \A k \in 0 .. top : k # w => b[k] = arr[k]
      /\ Sorted(b, l, w)
  <2>1. NoneAbove(arr, l, w, v)
    BY <1>4, Zenon DEF NoneAbove
  <2>2. Written(top, arr, b, l, w, v)
    BY <1>n, <1>s, <1>3, <1>4, <1>v, <2>1, WrittenSorted
  <2> QED
    BY <2>2, Zenon DEF Written
<1>6. ASSUME NEW k \in l .. w
      PROVE  /\ \A x \in l + i .. m : b[k] <= a[x]
             /\ \A y \in m + 1 + (j + 1) .. r : b[k] <= a[y]
  <2>1. k \in 0 .. top /\ (k # w => k \in l .. w - 1)
    BY <1>n, <1>3
  <2>2. ASSUME NEW x \in l + i .. m PROVE b[k] <= a[x]
    <3>1. x \in l .. m /\ l + i <= x /\ l + i \in l .. m /\ i <= m - l /\ x \in 0 .. top /\ l + i \in 0 .. top
      BY <1>1
    <3>2. CASE k = w
      <4>1. v < a[l + i] /\ a[l + i] <= a[x]
        BY <1>1, <3>1 DEF Sorted
      <4>2. a[x] \in Int /\ a[l + i] \in Int
        BY <1>1, <3>1
      <4> QED
        BY <1>v, <1>5, <3>2, <4>1, <4>2
    <3>3. CASE k # w
      BY <1>1, <1>5, <2>1, <3>3
    <3> QED
      BY <3>2, <3>3
  <2>3. ASSUME NEW y \in m + 1 + (j + 1) .. r PROVE b[k] <= a[y]
    <3>1. y \in m + 1 .. r /\ e <= y /\ y \in m + 1 + j .. r
      BY <1>1, <1>3
    <3>2. CASE k = w
      BY <1>1, <1>3, <1>v, <1>5, <3>1, <3>2 DEF Sorted
    <3>3. CASE k # w
      BY <1>1, <1>5, <2>1, <3>1, <3>3
    <3> QED
      BY <3>2, <3>3
  <2> QED
    BY <2>2, <2>3
<1>7. \E s \in Bijection(0 .. top, 0 .. top) : \A k \in 0 .. top : s[k] = p[Rotated(w, e, k)]
  <2> DEFINE f == [k \in 0 .. top |-> Rotated(w, e, k)]
             s == [k \in 0 .. top |-> p[f[k]]]
  <2>1. f \in Bijection(0 .. top, 0 .. top)
    BY <1>1, <1>3, Rotation
  <2>2. \A k \in 0 .. top : s[k] = p[Rotated(w, e, k)]
    OBVIOUS
  <2> HIDE DEF f
  <2>3. s \in Bijection(0 .. top, 0 .. top)
    BY <1>2, <2>1, Fun_BijTransitive
  <2> HIDE DEF s
  <2> QED
    BY <2>2, <2>3
<1>8. PICK s \in Bijection(0 .. top, 0 .. top) : \A k \in 0 .. top : s[k] = p[Rotated(w, e, k)]
  BY <1>7
<1>9. ASSUME NEW k \in 0 .. top, k < w + 1 \/ k > r PROVE b[k] = a[s[k]]
  <2>1. CASE k = w
    <3>1. Rotated(w, e, k) = e
      BY <2>1 DEF Rotated
    <3>2. s[k] = e
      BY <1>2, <1>3, <1>8, <3>1
    <3> QED
      BY <1>v, <1>5, <2>1, <3>2
  <2>2. CASE k # w
    <3>1. (k < w \/ k > r) /\ Rotated(w, e, k) = k
      BY <1>1, <1>3, <1>9, <2>2 DEF Rotated
    <3>2. s[k] = p[k] /\ b[k] = arr[k]
      BY <1>5, <1>8, <2>2, <3>1
    <3> QED
      BY <1>2, <3>1, <3>2
  <2> QED
    BY <2>1, <2>2
<1>10. ASSUME NEW k \in w + 1 .. m + (j + 1) PROVE s[k] = k - (j + 1)
  <2>1. k \in 0 .. top /\ k - 1 \in w .. m + j /\ Rotated(w, e, k) = k - 1
    BY <1>1, <1>3 DEF Rotated
  <2>2. p[k - 1] = k - 1 - j
    BY <1>2, <2>1
  <2> QED
    BY <1>n, <1>8, <2>1, <2>2
<1>11. ASSUME NEW k \in m + (j + 1) + 1 .. r PROVE s[k] = k
  <2>1. k \in 0 .. top /\ k \in m + j + 1 .. r /\ Rotated(w, e, k) = k
    BY <1>1, <1>3 DEF Rotated
  <2> QED
    BY <1>2, <1>8, <2>1
<1>12. \A k \in 0 .. top : k < l \/ k > r => b[k] = a[k]
  <2>1. \A k \in 0 .. top : k < l \/ k > r => k # w
    BY <1>n, <1>3
  <2> QED
    BY <1>1, <1>5, <2>1
<1>13. /\ i \in 0 .. m - l + 1 /\ j + 1 \in 0 .. r - m
       /\ l + i + (j + 1) - 1 = w /\ l + i + (j + 1) = w + 1
  BY <1>1
<1> QED
  BY <1>5, <1>6, <1>8, <1>9, <1>10, <1>11, <1>12, <1>13 DEF MergedTo

-----------------------------------------------------------------------------
(* All turns of its loops: what Turns is, and what it comes to.            *)

\* A set of natural numbers that holds 0 and with each its successor holds all.
LEMMA SetInduction ==
  ASSUME NEW S, 0 \in S, \A k \in Nat : k \in S => k + 1 \in S
  PROVE  Nat \subseteq S
<1> SUFFICES ASSUME NEW x \in Nat, x \notin S PROVE FALSE
  OBVIOUS
<1> DEFINE T == {k \in Nat : k \notin S}
           RR == OpToRel(<, Nat)
<1>1. T \in SUBSET Nat /\ T # {}
  OBVIOUS
<1>2. IsWellFoundedOn(RR, Nat)
  BY NatLessThanWellFounded
<1>3. \A a, b \in Nat : a < b => <<a, b>> \in RR
  BY DEF OpToRel
<1>a. \A k \in Nat : k \in T <=> k \notin S
  OBVIOUS
<1> HIDE DEF T, RR
<1>4. PICK j \in T : \A i \in T : <<i, j>> \notin RR
  BY <1>1, <1>2, WFMin
<1>5. j \in Nat /\ j # 0 /\ j \notin S
  BY <1>1, <1>4, <1>a
<1>6. j - 1 \in Nat /\ j - 1 \notin T
  <2>1. j - 1 \in Nat /\ j - 1 < j
    BY <1>5
  <2>2. <<j - 1, j>> \in RR
    BY <1>3, <1>5, <2>1
  <2> QED
    BY <1>4, <2>1, <2>2
<1>7. j - 1 \in S
  BY <1>6, <1>a
<1> QED
  BY <1>5, <1>6, <1>7

Begun(arr) == [arr |-> arr, i |-> 0, j |-> 0]

\* f is what after is defined to be.
AreTurns(f, arr, L, R, l, len) ==
  f = [k \in 0 .. len |-> IF k = 0 THEN Begun(arr) ELSE Sequential!Turn(f[k - 1], L, R, l)]

LEMMA TurnsExist ==
  ASSUME NEW arr, NEW L, NEW R, NEW l, NEW len \in Nat
  PROVE  \E f : AreTurns(f, arr, L, R, l, len)
<1> DEFINE T(t) == Sequential!Turn(t, L, R, l)
           S == {b \in Nat : \E f : f = [k \in 0 .. b |-> IF k = 0 THEN Begun(arr) ELSE T(f[k - 1])]}
<1> HIDE DEF T
<1>1. 0 \in S
  <2> DEFINE f == [k \in 0 .. 0 |-> Begun(arr)]
  <2>1. f = [k \in 0 .. 0 |-> IF k = 0 THEN Begun(arr) ELSE T(f[k - 1])]
    OBVIOUS
  <2> QED
    BY <2>1
<1>2. ASSUME NEW b \in Nat, b \in S PROVE b + 1 \in S
  <2>1. PICK f : f = [k \in 0 .. b |-> IF k = 0 THEN Begun(arr) ELSE T(f[k - 1])]
    BY <1>2
  <2> DEFINE g == [k \in 0 .. b + 1 |-> IF k = b + 1 THEN T(f[b]) ELSE f[k]]
  <2>2. \A k \in 0 .. b + 1 : g[k] = IF k = 0 THEN Begun(arr) ELSE T(g[k - 1])
    <3> TAKE k \in 0 .. b + 1
    <3>1. CASE k = b + 1
      BY <3>1
    <3>2. CASE k # b + 1
      <4>1. k \in 0 .. b /\ g[k] = f[k] /\ (k # 0 => k - 1 \in 0 .. b /\ g[k - 1] = f[k - 1])
        BY <3>2
      <4>2. f[k] = IF k = 0 THEN Begun(arr) ELSE T(f[k - 1])
        BY <2>1, <4>1
      <4> HIDE DEF g
      <4> QED
        BY <4>1, <4>2
    <3> QED
      BY <3>1, <3>2
  <2>3. g = [k \in 0 .. b + 1 |-> g[k]]
    OBVIOUS
  <2> HIDE DEF g
  <2>4. g = [k \in 0 .. b + 1 |-> IF k = 0 THEN Begun(arr) ELSE T(g[k - 1])]
    BY <2>2, <2>3
  <2> QED
    BY <2>4
<1> HIDE DEF S
<1>3. len \in S
  BY <1>1, <1>2, SetInduction
<1> QED
  BY <1>3 DEF S, T, AreTurns

LEMMA TurnsUnfold ==
  ASSUME NEW arr, NEW L, NEW R, NEW l, NEW len \in Nat
  PROVE  Sequential!Turns(arr, L, R, l, len) =
           [k \in 0 .. len |-> IF k = 0 THEN Begun(arr)
                             ELSE Sequential!Turn(Sequential!Turns(arr, L, R, l, len)[k - 1], L, R, l)]
<1> DEFINE P(f) == AreTurns(f, arr, L, R, l, len)
<1>1. \E f : P(f)
  BY TurnsExist
<1>2. Sequential!Turns(arr, L, R, l, len) = CHOOSE f : P(f)
  BY DEF Sequential!Turns, Begun, AreTurns
<1> HIDE DEF P
<1>3. P(CHOOSE f : P(f))
  BY <1>1, Zenon
<1>4. P(Sequential!Turns(arr, L, R, l, len))
  BY <1>2, <1>3, Zenon
<1> QED
  BY <1>4, Zenon DEF P, AreTurns

\* L and R as merge copies them.
AreHalves(a, l, m, r, L, R) ==
  /\ L = [i \in 0 .. (m - l + 1) - 1 |-> a[l + i]]
  /\ R = [j \in 0 .. (r - m) - 1 |-> a[m + 1 + j]]

\* A turn of the loops keeps what is merged merged.
LEMMA TurnMerges ==
  ASSUME NEW top, NEW a, NEW l, NEW m, NEW r, NEW L, NEW R, NEW t, NEW u,
         SortedHalves(top, a, l, m, r), AreHalves(a, l, m, r, L, R),
         MergedTo(top, a, l, m, r, t.arr, t.i, t.j), t.i + t.j < r - l + 1,
         u = Sequential!Turn(t, L, R, l)
  PROVE  MergedTo(top, a, l, m, r, u.arr, u.i, u.j) /\ u.i + u.j = t.i + t.j + 1
<1>1. /\ top \in Int /\ l \in Int /\ m \in Int /\ r \in Int /\ 0 <= l /\ l <= m /\ m < r /\ r <= top
      /\ a \in [0 .. top -> Int]
  BY Zenon DEF SortedHalves
<1>2. t.i \in 0 .. m - l + 1 /\ t.j \in 0 .. r - m
  BY Zenon DEF MergedTo
<1>n. /\ l \in Int /\ m \in Int /\ r \in Int /\ t.i \in Int /\ t.j \in Int /\ 0 <= t.i /\ 0 <= t.j
      /\ top \in Int /\ 0 <= l /\ m < r /\ r <= top
  BY <1>1, <1>2
<1>d. DOMAIN L = 0 .. (m - l + 1) - 1 /\ DOMAIN R = 0 .. (r - m) - 1
  BY DEF AreHalves
<1>e. /\ \A x \in 0 .. (m - l + 1) - 1 : L[x] = a[l + x]
      /\ \A y \in 0 .. (r - m) - 1 : R[y] = a[m + 1 + y]
  BY DEF AreHalves
<1>3. /\ t.i \in DOMAIN L <=> t.i <= m - l
      /\ t.j \in DOMAIN R <=> t.j < r - m
      /\ t.i <= m - l => L[t.i] = a[l + t.i]
      /\ t.j < r - m => R[t.j] = a[m + 1 + t.j]
  BY <1>n, <1>d, <1>e
<1>4. CASE t.i \in DOMAIN L /\ (t.j \in DOMAIN R => L[t.i] <= R[t.j])
  <2>1. u = [arr |-> [t.arr EXCEPT ![l + t.i + t.j] = L[t.i]], i |-> t.i + 1, j |-> t.j]
    BY <1>4 DEF Sequential!Turn
  <2>2. t.i <= m - l /\ (t.j < r - m => a[l + t.i] <= a[m + 1 + t.j]) /\ L[t.i] = a[l + t.i]
    BY <1>3, <1>4
  <2>3. MergedTo(top, a, l, m, r, [t.arr EXCEPT ![l + t.i + t.j] = L[t.i]], t.i + 1, t.j)
    BY <2>2, TurnLeft
  <2> QED
    BY <1>2, <2>1, <2>3
<1>5. CASE ~(t.i \in DOMAIN L /\ (t.j \in DOMAIN R => L[t.i] <= R[t.j]))
  <2>1. u = [arr |-> [t.arr EXCEPT ![l + t.i + t.j] = R[t.j]], i |-> t.i, j |-> t.j + 1]
    BY <1>5 DEF Sequential!Turn
  <2>2. t.j < r - m
    <3>1. CASE t.i <= m - l
      BY <1>3, <1>5, <3>1
    <3>2. CASE ~(t.i <= m - l)
      BY <1>1, <1>2, <3>2
    <3> QED
      BY <3>1, <3>2
  <2>3. t.i <= m - l => a[m + 1 + t.j] < a[l + t.i]
    <3> HAVE t.i <= m - l
    <3>1. l + t.i \in 0 .. top /\ m + 1 + t.j \in 0 .. top
      BY <1>n, <2>2
    <3>2. a[l + t.i] \in Int /\ a[m + 1 + t.j] \in Int
      BY <1>1, <3>1
    <3>3. ~(a[l + t.i] <= a[m + 1 + t.j])
      BY <1>3, <1>5, <2>2
    <3> QED
      BY <3>2, <3>3
  <2>4. MergedTo(top, a, l, m, r, [t.arr EXCEPT ![l + t.i + t.j] = R[t.j]], t.i, t.j + 1)
    BY <1>3, <2>2, <2>3, TurnRight
  <2> QED
    BY <1>2, <2>1, <2>4
<1> QED
  BY <1>4, <1>5

\* Nothing is merged yet.
LEMMA BegunMerged ==
  ASSUME NEW top, NEW a, NEW l, NEW m, NEW r, SortedHalves(top, a, l, m, r)
  PROVE  MergedTo(top, a, l, m, r, a, 0, 0)
<1>1. /\ top \in Int /\ l \in Int /\ m \in Int /\ r \in Int /\ 0 <= l /\ l <= m /\ m < r /\ r <= top
      /\ a \in [0 .. top -> Int]
  BY Zenon DEF SortedHalves
<1> DEFINE p == [k \in 0 .. top |-> k]
<1>2. p \in Bijection(0 .. top, 0 .. top)
  BY Fun_IsBij
<1>3. /\ \A k \in 0 .. top : p[k] = k
      /\ \A k \in l .. r : p[k] = k
  BY <1>1
<1> HIDE DEF p
<1>4. /\ \A k \in 0 .. top : k < l + 0 + 0 \/ k > r => a[k] = a[p[k]]
      /\ \A k \in l + 0 + 0 .. m + 0 : p[k] = k - 0
      /\ \A k \in m + 0 + 1 .. r : p[k] = k
  BY <1>1, <1>3
<1>5. 0 \in 0 .. m - l + 1 /\ 0 \in 0 .. r - m /\ l .. l + 0 + 0 - 1 = {}
  BY <1>1
<1>6. Sorted(a, l, l + 0 + 0 - 1)
  BY <1>5 DEF Sorted
<1> QED
  BY <1>1, <1>2, <1>4, <1>5, <1>6 DEF MergedTo

\* b is a, sorted from l to r and as it was elsewhere.
SortsTo(top, a, b, l, r) ==
  /\ b \in [0 .. top -> Int]
  /\ \A k \in 0 .. top : k < l \/ k > r => b[k] = a[k]
  /\ Sorted(b, l, r)
  /\ \E p : Permutes(0 .. top, a, b, p)

\* All is merged.
LEMMA EndMerged ==
  ASSUME NEW top, NEW a, NEW l, NEW m, NEW r, NEW b, NEW i, NEW j,
         SortedHalves(top, a, l, m, r), MergedTo(top, a, l, m, r, b, i, j), i + j = r - l + 1
  PROVE  SortsTo(top, a, b, l, r)
<1>1. /\ top \in Int /\ l \in Int /\ m \in Int /\ r \in Int /\ 0 <= l /\ l <= m /\ m < r /\ r <= top
  BY Zenon DEF SortedHalves
<1>2. i \in 0 .. m - l + 1 /\ j \in 0 .. r - m
  BY Zenon DEF MergedTo
<1>3. l + i + j - 1 = r /\ \A k \in 0 .. top : k < l + i + j \/ k > r
  BY <1>1, <1>2
<1>4. PICK p \in Bijection(0 .. top, 0 .. top) : \A k \in 0 .. top : k < l + i + j \/ k > r => b[k] = a[p[k]]
  BY Zenon DEF MergedTo
<1>5. Permutes(0 .. top, a, b, p)
  BY <1>3, <1>4, Zenon DEF Permutes
<1> QED
  BY <1>3, <1>5, Zenon DEF MergedTo, SortsTo

\* merge(arr, l, m, r) makes one sorted part of two.
LEMMA MergeSorts ==
  ASSUME NEW top, NEW a, NEW l, NEW m, NEW r, SortedHalves(top, a, l, m, r)
  PROVE  SortsTo(top, a, Sequential!merge(a, l, m, r), l, r)
<1>1. /\ top \in Int /\ l \in Int /\ m \in Int /\ r \in Int /\ 0 <= l /\ l <= m /\ m < r /\ r <= top
  BY Zenon DEF SortedHalves
<1> DEFINE L == [i \in 0 .. (m - l + 1) - 1 |-> a[l + i]]
           R == [j \in 0 .. (r - m) - 1 |-> a[m + 1 + j]]
           len == (m - l + 1) + (r - m)
           f == Sequential!Turns(a, L, R, l, len)
           S == {k \in Nat : k <= len => MergedTo(top, a, l, m, r, f[k].arr, f[k].i, f[k].j) /\ f[k].i + f[k].j = k}
<1>2. AreHalves(a, l, m, r, L, R)
  BY DEF AreHalves
<1>3. Sequential!merge(a, l, m, r) = f[len].arr
  BY Zenon DEF Sequential!merge, Sequential!Merged
<1>4. len \in Nat /\ len = r - l + 1
  BY <1>1
<1> HIDE DEF L, R, len
<1>5. f = [k \in 0 .. len |-> IF k = 0 THEN Begun(a) ELSE Sequential!Turn(f[k - 1], L, R, l)]
  BY <1>4, TurnsUnfold
<1> HIDE DEF f
<1>6. 0 \in S
  <2>1. f[0] = Begun(a)
    BY <1>4, <1>5
  <2>2. f[0].arr = a /\ f[0].i = 0 /\ f[0].j = 0
    BY <2>1 DEF Begun
  <2>3. MergedTo(top, a, l, m, r, f[0].arr, f[0].i, f[0].j)
    BY <2>2, BegunMerged
  <2> QED
    BY <2>2, <2>3
<1>7. ASSUME NEW k \in Nat, k \in S PROVE k + 1 \in S
  <2> SUFFICES ASSUME k + 1 <= len
               PROVE  MergedTo(top, a, l, m, r, f[k + 1].arr, f[k + 1].i, f[k + 1].j) /\ f[k + 1].i + f[k + 1].j = k + 1
    OBVIOUS
  <2>1. k <= len /\ k < r - l + 1 /\ k + 1 \in 0 .. len /\ k + 1 # 0 /\ k + 1 - 1 = k
    BY <1>4
  <2>2. MergedTo(top, a, l, m, r, f[k].arr, f[k].i, f[k].j) /\ f[k].i + f[k].j = k
    BY <1>7, <2>1
  <2>3. f[k + 1] = Sequential!Turn(f[k], L, R, l)
    BY <1>5, <2>1
  <2> QED
    BY <1>2, <2>1, <2>2, <2>3, TurnMerges
<1>a. len \in S => MergedTo(top, a, l, m, r, f[len].arr, f[len].i, f[len].j) /\ f[len].i + f[len].j = len
  BY <1>4
<1> HIDE DEF S
<1>8. len \in S
  BY <1>4, <1>6, <1>7, SetInduction
<1>9. SortsTo(top, a, f[len].arr, l, r)
  BY <1>4, <1>8, <1>a, EndMerged
<1> QED
  BY <1>3, <1>9

-----------------------------------------------------------------------------
(* mergeSort, call by call.                                                *)

\* The arguments of mergeSort, and those with at most b numbers after the first.
Args(size) == [0 .. size - 1 -> Int] \X (0 .. size) \X (-1 .. size - 1)
ArgsUpTo(size, b) == {c \in Args(size) : c[3] - c[2] <= b}

\* The calls of a call: arr[l..m], then arr[m+1..r].
Middle(c) == (c[2] + c[3]) \div 2
FirstHalf(c) == <<c[1], c[2], Middle(c)>>
SecondHalf(f, c) == <<f[FirstHalf(c)], Middle(c) + 1, c[3]>>
SortBody(f, c) ==
  IF c[2] < c[3] THEN Sequential!merge(f[SecondHalf(f, c)], c[2], Middle(c), c[3]) ELSE c[1]

\* What f returns for c is sorted where it should be.
Fits(size, c, b) == SortsTo(size - 1, c[1], b, c[2], c[3])

LEMMA PermutesBoth ==
  ASSUME NEW D, NEW a, NEW b, NEW c, NEW p, NEW q, Permutes(D, a, b, p), Permutes(D, b, c, q)
  PROVE  \E s : Permutes(D, a, c, s)
<1> DEFINE s == [k \in D |-> p[q[k]]]
<1>1. p \in Bijection(D, D) /\ q \in Bijection(D, D)
  BY DEF Permutes
<1>2. s \in Bijection(D, D)
  BY <1>1, Fun_BijTransitive
<1>3. \A k \in D : q[k] \in D
  BY <1>1, Fun_BijectionProperties
<1>4. \A k \in D : c[k] = a[s[k]]
  BY <1>3 DEF Permutes
<1> HIDE DEF s
<1> QED
  BY <1>2, <1>4 DEF Permutes

LEMMA ArgsOf ==
  ASSUME NEW size, NEW b, NEW x, NEW y, NEW z,
         x \in [0 .. size - 1 -> Int], y \in 0 .. size, z \in -1 .. size - 1, z - y <= b
  PROVE  <<x, y, z>> \in ArgsUpTo(size, b)
BY DEF ArgsUpTo, Args

\* A call with one number or none.
LEMMA SortsNone ==
  ASSUME NEW top, NEW a, NEW l, NEW r, a \in [0 .. top -> Int], top \in Int,
         l \in 0 .. top + 1, r \in -1 .. top, ~(l < r)
  PROVE  SortsTo(top, a, a, l, r)
<1> DEFINE p == [k \in 0 .. top |-> k]
<1>1. p \in Bijection(0 .. top, 0 .. top)
  BY Fun_IsBij
<1>2. \A k \in 0 .. top : p[k] = k
  OBVIOUS
<1> HIDE DEF p
<1>3. Permutes(0 .. top, a, a, p)
  BY <1>1, <1>2 DEF Permutes
<1>4. ASSUME NEW k \in l .. r, NEW x \in l .. r PROVE a[k] <= a[x]
  <2>1. k = x /\ k \in 0 .. top
    OBVIOUS
  <2>2. a[k] \in Int
    BY <2>1
  <2> QED
    BY <2>1, <2>2
<1>5. Sorted(a, l, r)
  BY <1>4 DEF Sorted
<1> QED
  BY <1>3, <1>5 DEF SortsTo

\* Two halves that are sorted one after the other.
LEMMA HalvesSorted ==
  ASSUME NEW top, NEW a, NEW b, NEW c, NEW l, NEW m, NEW r,
         top \in Int, l \in Int, m \in Int, r \in Int,
         0 <= l, l <= m, m < r, r <= top,
         SortsTo(top, a, b, l, m), SortsTo(top, b, c, m + 1, r)
  PROVE  SortedHalves(top, c, l, m, r)
<1>1. \A k \in 0 .. top : k < m + 1 \/ k > r => c[k] = b[k]
  BY Zenon DEF SortsTo
<1>2. Sorted(b, l, m) /\ Sorted(c, m + 1, r) /\ c \in [0 .. top -> Int]
  BY Zenon DEF SortsTo
<1>3. \A k \in l .. m : k \in 0 .. top /\ k < m + 1
  OBVIOUS
<1>4. \A k \in l .. m : c[k] = b[k]
  BY <1>1, <1>3
<1>5. Sorted(c, l, m)
  BY <1>2, <1>4 DEF Sorted
<1> QED
  BY <1>2, <1>5 DEF SortedHalves

\* The halves sorted and then merged.
LEMMA AllSorted ==
  ASSUME NEW top, NEW a, NEW b, NEW c, NEW d, NEW l, NEW m, NEW r,
         top \in Int, l \in Int, m \in Int, r \in Int,
         0 <= l, l <= m, m < r, r <= top,
         SortsTo(top, a, b, l, m), SortsTo(top, b, c, m + 1, r), SortsTo(top, c, d, l, r)
  PROVE  SortsTo(top, a, d, l, r)
<1>1. /\ \A k \in 0 .. top : k < l \/ k > m => b[k] = a[k]
      /\ \A k \in 0 .. top : k < m + 1 \/ k > r => c[k] = b[k]
      /\ \A k \in 0 .. top : k < l \/ k > r => d[k] = c[k]
      /\ Sorted(d, l, r) /\ d \in [0 .. top -> Int]
  BY Zenon DEF SortsTo
<1>2. \A k \in 0 .. top : k < l \/ k > r => (k < l \/ k > m) /\ (k < m + 1 \/ k > r)
  OBVIOUS
<1>3. \A k \in 0 .. top : k < l \/ k > r => d[k] = a[k]
  BY <1>1, <1>2, Zenon
<1>4. PICK p, q, s : Permutes(0 .. top, a, b, p) /\ Permutes(0 .. top, b, c, q) /\ Permutes(0 .. top, c, d, s)
  BY Zenon DEF SortsTo
<1>5. PICK t : Permutes(0 .. top, a, c, t)
  BY <1>4, PermutesBoth
<1>6. \E u : Permutes(0 .. top, a, d, u)
  BY <1>4, <1>5, PermutesBoth
<1> QED
  BY <1>1, <1>3, <1>6, Zenon DEF SortsTo

\* With a function that sorts up to b + 1 numbers, a call of one more calls it
\* with arguments of its domain and returns what is sorted.
LEMMA BodyFits ==
  ASSUME NEW size \in Nat, NEW b \in Nat, NEW f,
         \A c \in ArgsUpTo(size, b) : Fits(size, c, f[c]),
         NEW c, c \in ArgsUpTo(size, b + 1)
  PROVE  /\ Fits(size, c, SortBody(f, c))
         /\ c[2] < c[3] => FirstHalf(c) \in ArgsUpTo(size, b) /\ SecondHalf(f, c) \in ArgsUpTo(size, b)
<1> DEFINE top == size - 1
           a == c[1]
           l == c[2]
           r == c[3]
           m == Middle(c)
<1>1. /\ a \in [0 .. size - 1 -> Int] /\ l \in 0 .. size /\ r \in -1 .. size - 1 /\ r - l <= b + 1
      /\ top \in Int /\ top = size - 1 /\ size = top + 1
  BY DEF ArgsUpTo, Args
<1>2. CASE ~(l < r)
  <2>1. SortBody(f, c) = a
    BY <1>2 DEF SortBody
  <2> HIDE DEF a, l, r, top, m
  <2>2. SortsTo(top, a, a, l, r)
    BY <1>1, <1>2, SortsNone
  <2> QED
    BY <1>2, <2>1, <2>2 DEF Fits, top, a, l, r
<1>3. CASE l < r
  <2>1. m = (l + r) \div 2
    BY DEF Middle
  <2>2. FirstHalf(c) = <<a, l, m>> /\ SecondHalf(f, c) = <<f[FirstHalf(c)], m + 1, r>>
    BY DEF FirstHalf, SecondHalf
  <2>3. SortBody(f, c) = Sequential!merge(f[SecondHalf(f, c)], l, m, r)
    BY <1>3 DEF SortBody
  <2>a. Fits(size, c, SortBody(f, c)) <=> SortsTo(top, a, SortBody(f, c), l, r)
    BY DEF Fits
  <2> HIDE DEF a, l, r, top, m
  <2>4. /\ l \in Int /\ m \in Int /\ r \in Int /\ 0 <= l /\ l <= m /\ m < r /\ r <= top
        /\ m - l <= b /\ r - (m + 1) <= b /\ m \in -1 .. size - 1 /\ m + 1 \in 0 .. size
    BY <1>1, <1>3, <2>1
  <2> DEFINE x == f[FirstHalf(c)]
             y == f[SecondHalf(f, c)]
  <2>5. FirstHalf(c) \in ArgsUpTo(size, b)
    <3>1. l \in 0 .. size
      BY <1>1
    <3>2. a \in [0 .. size - 1 -> Int] /\ m \in -1 .. size - 1 /\ m - l <= b
      BY <1>1, <2>4
    <3> QED
      BY <2>2, <3>1, <3>2, ArgsOf
  <2>6. SortsTo(top, a, x, l, m)
    BY <1>1, <2>2, <2>5 DEF Fits
  <2>7. x \in [0 .. size - 1 -> Int]
    BY <1>1, <2>6 DEF SortsTo
  <2>8. SecondHalf(f, c) \in ArgsUpTo(size, b)
    <3>1. m + 1 \in 0 .. size /\ r \in -1 .. size - 1 /\ r - (m + 1) <= b
      BY <1>1, <2>4
    <3> QED
      BY <2>2, <2>7, <3>1, ArgsOf
  <2>9. SortsTo(top, x, y, m + 1, r)
    BY <1>1, <2>2, <2>8 DEF Fits
  <2> HIDE DEF x, y
  <2>10. SortedHalves(top, y, l, m, r)
    BY <1>1, <2>4, <2>6, <2>9, HalvesSorted
  <2>11. SortsTo(top, y, Sequential!merge(y, l, m, r), l, r)
    BY <2>10, MergeSorts
  <2>12. SortsTo(top, a, Sequential!merge(y, l, m, r), l, r)
    BY <1>1, <2>4, <2>6, <2>9, <2>11, AllSorted
  <2> QED
    BY <2>3, <2>5, <2>8, <2>12, <2>a DEF y
<1> QED
  BY <1>2, <1>3

\* f is sort as far as it is defined.
SortsUpTo(size, b, f) == f = [c \in ArgsUpTo(size, b) |-> SortBody(f, c)]

LEMMA SortsFit ==
  ASSUME NEW size \in Nat, NEW b \in Nat, NEW f, SortsUpTo(size, b, f)
  PROVE  \A c \in ArgsUpTo(size, b) : Fits(size, c, f[c])
<1> DEFINE S == {d \in Nat : d <= b => \A c \in ArgsUpTo(size, d) : Fits(size, c, f[c])}
<1>1. \A c \in ArgsUpTo(size, b) : f[c] = SortBody(f, c)
  BY DEF SortsUpTo
<1>2. \A d, e \in Nat : d <= e => ArgsUpTo(size, d) \subseteq ArgsUpTo(size, e)
  BY DEF ArgsUpTo, Args
<1>3. 0 \in S
  <2> SUFFICES ASSUME NEW c \in ArgsUpTo(size, 0) PROVE Fits(size, c, f[c])
    OBVIOUS
  <2>1. /\ c[1] \in [0 .. size - 1 -> Int] /\ c[2] \in 0 .. size - 1 + 1 /\ c[3] \in -1 .. size - 1
        /\ ~(c[2] < c[3]) /\ size - 1 \in Int
    BY DEF ArgsUpTo, Args
  <2>2. SortsTo(size - 1, c[1], c[1], c[2], c[3])
    BY <2>1, SortsNone
  <2>3. c \in ArgsUpTo(size, b)
    BY <1>2
  <2>4. f[c] = c[1]
    BY <1>1, <2>1, <2>3 DEF SortBody
  <2> QED
    BY <2>2, <2>4 DEF Fits
<1>4. ASSUME NEW d \in Nat, d \in S PROVE d + 1 \in S
  <2> SUFFICES ASSUME d + 1 <= b, NEW c \in ArgsUpTo(size, d + 1) PROVE Fits(size, c, f[c])
    OBVIOUS
  <2>1. \A e \in ArgsUpTo(size, d) : Fits(size, e, f[e])
    BY <1>4
  <2>2. Fits(size, c, SortBody(f, c))
    BY <2>1, BodyFits
  <2>3. c \in ArgsUpTo(size, b)
    BY <1>2
  <2> QED
    BY <1>1, <2>2, <2>3
<1>5. b \in S => \A c \in ArgsUpTo(size, b) : Fits(size, c, f[c])
  OBVIOUS
<1> HIDE DEF S
<1>6. b \in S
  BY <1>3, <1>4, SetInduction
<1> QED
  BY <1>5, <1>6

LEMMA SortsExist ==
  ASSUME NEW size \in Nat
  PROVE  \E f : SortsUpTo(size, size, f)
<1> DEFINE S == {b \in Nat : \E f : SortsUpTo(size, b, f)}
<1>1. 0 \in S
  <2> DEFINE f == [c \in ArgsUpTo(size, 0) |-> c[1]]
  <2>1. \A c \in ArgsUpTo(size, 0) : ~(c[2] < c[3])
    BY DEF ArgsUpTo, Args
  <2>2. \A c \in ArgsUpTo(size, 0) : c[1] = SortBody(f, c)
    BY <2>1 DEF SortBody
  <2>3. f = [c \in ArgsUpTo(size, 0) |-> SortBody(f, c)]
    BY <2>2
  <2>4. SortsUpTo(size, 0, f)
    BY <2>3 DEF SortsUpTo
  <2> QED
    BY <2>4
<1>2. ASSUME NEW b \in Nat, b \in S PROVE b + 1 \in S
  <2>1. PICK f : SortsUpTo(size, b, f)
    BY <1>2
  <2>2. \A c \in ArgsUpTo(size, b) : Fits(size, c, f[c])
    BY <2>1, SortsFit
  <2> DEFINE g == [c \in ArgsUpTo(size, b + 1) |-> SortBody(f, c)]
  <2>3. ASSUME NEW c \in ArgsUpTo(size, b) PROVE c \in ArgsUpTo(size, b + 1) /\ g[c] = f[c]
    <3>1. c \in ArgsUpTo(size, b + 1)
      BY DEF ArgsUpTo, Args
    <3>2. f[c] = SortBody(f, c)
      BY <2>1 DEF SortsUpTo
    <3> QED
      BY <3>1, <3>2
  <2>4. ASSUME NEW c \in ArgsUpTo(size, b + 1) PROVE SortBody(f, c) = SortBody(g, c)
    <3>1. CASE c[2] < c[3]
      <4>1. FirstHalf(c) \in ArgsUpTo(size, b) /\ SecondHalf(f, c) \in ArgsUpTo(size, b)
        BY <2>2, <3>1, BodyFits
      <4> HIDE DEF g
      <4>2. g[FirstHalf(c)] = f[FirstHalf(c)] /\ g[SecondHalf(f, c)] = f[SecondHalf(f, c)]
        BY <2>3, <4>1
      <4>3. SecondHalf(g, c) = SecondHalf(f, c)
        BY <4>2 DEF SecondHalf
      <4> QED
        BY <4>2, <4>3 DEF SortBody
    <3>2. CASE ~(c[2] < c[3])
      BY <3>2 DEF SortBody
    <3> QED
      BY <3>1, <3>2
  <2>5. g = [c \in ArgsUpTo(size, b + 1) |-> g[c]] /\ \A c \in ArgsUpTo(size, b + 1) : g[c] = SortBody(g, c)
    BY <2>4
  <2> HIDE DEF g
  <2>6. g = [c \in ArgsUpTo(size, b + 1) |-> SortBody(g, c)]
    BY <2>5
  <2>7. SortsUpTo(size, b + 1, g)
    BY <2>6 DEF SortsUpTo
  <2> QED
    BY <2>7
<1>3. size \in S => \E f : SortsUpTo(size, size, f)
  OBVIOUS
<1> HIDE DEF S
<1>4. size \in S
  BY <1>1, <1>2, SetInduction
<1> QED
  BY <1>3, <1>4

\* merge.c sorts: mergeSort(arr, 0, arr_size - 1) leaves the numbers of any array
\* in order, none lost and none twice.
THEOREM SequentialSorts ==
  ASSUME NEW size \in Nat, NEW a \in [0 .. size - 1 -> Int]
  PROVE  SortsTo(size - 1, a, Sequential!mergeSort(size)[<<a, 0, size - 1>>], 0, size - 1)
<1> DEFINE P(f) == SortsUpTo(size, size, f)
<1>1. ArgsUpTo(size, size) = Args(size)
  BY DEF ArgsUpTo, Args
<1>2. \E f : P(f)
  BY SortsExist
<1>3. \A f : P(f) <=> f = [c \in Args(size) |-> SortBody(f, c)]
  BY <1>1 DEF SortsUpTo
<1>4. Sequential!mergeSort(size) = CHOOSE f : f = [c \in Args(size) |-> SortBody(f, c)]
  BY Zenon DEF Sequential!mergeSort, Args, SortBody, FirstHalf, SecondHalf, Middle
<1> HIDE DEF P
<1> DEFINE Q(f) == f = [c \in Args(size) |-> SortBody(f, c)]
<1>a. Sequential!mergeSort(size) = CHOOSE f : Q(f)
  BY <1>4
<1>b. \E f : Q(f)
  BY <1>2, <1>3
<1>c. Q(Sequential!mergeSort(size)) => P(Sequential!mergeSort(size))
  BY <1>3
<1> HIDE DEF Q
<1>d. Q(CHOOSE f : Q(f))
  BY <1>b, Zenon
<1>5. P(Sequential!mergeSort(size))
  BY <1>a, <1>c, <1>d, Zenon
<1>6. \A c \in Args(size) : Fits(size, c, Sequential!mergeSort(size)[c])
  BY <1>1, <1>5, SortsFit DEF P
<1>7. <<a, 0, size - 1>> \in Args(size)
  BY DEF Args
<1> QED
  BY <1>6, <1>7 DEF Fits

\* What main prints is what merge.c prints for the same numbers.
THEOREM SequentialPrinted == Spec => []PrintsAsSequential
<1>1. MergeInv => PrintsAsSequential
  <2> SUFFICES ASSUME MergeInv, Done PROVE array = Sequential!main(input, LENGTH_ARRAY)
    BY DEF PrintsAsSequential
  <2>1. Types /\ Control /\ Order /\ Rearranged
    BY DEF MergeInv
  <2>2. main[1] = "merge" /\ main[2] = n
    BY <2>1 DEF Done, Types, Threads
  <2>3. inside = {}
    BY <2>1, <2>2 DEF Control, InMerge, MainInMerge, Types, Callers
  <2>4. Sorted(array, 0, LENGTH_ARRAY - 1)
    BY <2>1, <2>2, <2>3, SliceFacts DEF Order
  <2>5. PICK p \in Bijection(Index, Index) : Rearranges(p)
    BY <2>1 DEF Rearranged
  <2>6. \A k \in Index : array[k] = input[p[k]]
    BY <2>3, <2>5 DEF Rearranges
  <2>7. Permutes(0 .. LENGTH_ARRAY - 1, input, array, p)
    BY <2>5, <2>6, Zenon DEF Permutes, Index
  <2>8. /\ LENGTH_ARRAY \in Nat
        /\ array \in [0 .. LENGTH_ARRAY - 1 -> Int] /\ input \in [0 .. LENGTH_ARRAY - 1 -> Int]
    BY <2>1, BoundsAssumption DEF Types, Index
  <2> DEFINE b == Sequential!mergeSort(LENGTH_ARRAY)[<<input, 0, LENGTH_ARRAY - 1>>]
  <2>9. Sequential!main(input, LENGTH_ARRAY) = b
    BY DEF Sequential!main
  <2>10. SortsTo(LENGTH_ARRAY - 1, input, b, 0, LENGTH_ARRAY - 1)
    BY <2>8, SequentialSorts
  <2> HIDE DEF b
  <2>11. PICK q : Permutes(0 .. LENGTH_ARRAY - 1, input, b, q)
    BY <2>10, Zenon DEF SortsTo
  <2>12. Sorted(b, 0, LENGTH_ARRAY - 1) /\ b \in [0 .. LENGTH_ARRAY - 1 -> Int]
    BY <2>10, Zenon DEF SortsTo
  <2>13. LENGTH_ARRAY - 1 \in Int
    BY <2>8
  <2>14. array = b
    BY <2>4, <2>7, <2>8, <2>11, <2>12, <2>13, SortedUnique
  <2> QED
    BY <2>9, <2>14
<1> QED
  BY <1>1, MergeInvariant, PTL

=============================================================================
