---------------------------- MODULE MergeThreads ----------------------------
(***************************************************************************)
(* Tareas/Merge/merge_threads.c: the threads sort their slices of one      *)
(* array, without a lock, while main joins them; then main merges the      *)
(* slices one after the other into the first.                              *)
(*                                                                         *)
(* Between two steps a caller of merge moves one number.  The copies into  *)
(* left and right are one step: NoRace says that nobody else writes what   *)
(* they read.                                                              *)
(***************************************************************************)
EXTENDS Slices, Sequences, FiniteSets

CONSTANTS
  Values,      \* the numbers the array may hold
  MAXLENGTH,   \* bounds LENGTH_ARRAY
  MAXTHREADS   \* bounds the -t parameter, NUMBER_THREADS

ASSUME BoundsAssumption ==
  Values \subseteq Int /\ MAXLENGTH \in Nat /\ MAXTHREADS \in Nat \ {0}

VARIABLES
  input,   \* the array as it was read
  array,
  n,       \* NUMBER_THREADS
  frames,  \* the calls of merge_sort each thread is in, outermost first
  inside,  \* who is in a call of merge
  call,    \* its arguments and locals
  alive,   \* the threads created and not finished
  main     \* main's phase and the i of its loop

vars == <<input, array, n, frames, inside, call, alive, main>>

LENGTH_ARRAY == Cardinality(DOMAIN input)
Threads == 0 .. n - 1
Main == -1
Callers == Threads \cup {Main}

Left(i) == ind_left(LENGTH_ARRAY, n, i)
Right(i) == ind_right(LENGTH_ARRAY, n, i)

-----------------------------------------------------------------------------
(* merge.                                                                  *)

\* merge(low, half, high) of arr, its two blocks copied.
Opened(arr, low, half, high) ==
  [low |-> low, half |-> half, high |-> high,
   left  |-> [k \in 0 .. half - low |-> arr[low + k]],
   right |-> [k \in 0 .. high - half - 1 |-> arr[half + 1 + k]],
   i |-> 0, j |-> 0, ind_array |-> low]

NoCall == Opened(<<>>, 0, -1, -1)

Enter(c, low, half, high) ==
  /\ inside' = inside \cup {c}
  /\ call' = [call EXCEPT ![c] = Opened(array, low, half, high)]

LeftLeft(c)  == call[c].i < call[c].half - call[c].low + 1
RightLeft(c) == call[c].j < call[c].high - call[c].half

\* array[ind_array++] = left[i++]
TakeLeft(c) ==
  /\ c \in inside
  /\ LeftLeft(c)
  /\ RightLeft(c) => call[c].left[call[c].i] <= call[c].right[call[c].j]
  /\ array' = [array EXCEPT ![call[c].ind_array] = call[c].left[call[c].i]]
  /\ call' = [call EXCEPT ![c].i = @ + 1, ![c].ind_array = @ + 1]
  /\ UNCHANGED <<input, n, frames, inside, alive, main>>

\* array[ind_array++] = right[j++]
TakeRight(c) ==
  /\ c \in inside
  /\ RightLeft(c)
  /\ LeftLeft(c) => call[c].left[call[c].i] > call[c].right[call[c].j]
  /\ array' = [array EXCEPT ![call[c].ind_array] = call[c].right[call[c].j]]
  /\ call' = [call EXCEPT ![c].j = @ + 1, ![c].ind_array = @ + 1]
  /\ UNCHANGED <<input, n, frames, inside, alive, main>>

Leave(c) ==
  /\ c \in inside
  /\ ~LeftLeft(c) /\ ~RightLeft(c)
  /\ inside' = inside \ {c}
  /\ call' = [call EXCEPT ![c] = NoCall]

-----------------------------------------------------------------------------
(* merge_sort, which thread_routine repeats for its slice.                 *)

Frame(low, high) == [low |-> low, high |-> high, at |-> "start"]

Top(i) == frames[i][Len(frames[i])]
Half(i) == Top(i).low + (Top(i).high - Top(i).low) \div 2

\* Thread i is in merge_sort itself, after the call that "at" names.
Sorting(i, at) == i \in alive \ inside /\ frames[i] # <<>> /\ Top(i).at = at

\* The innermost call goes on to the call of merge_sort(low, high).
Calls(i, at, low, high) ==
  /\ frames' = [frames EXCEPT ![i] = Append([@ EXCEPT ![Len(@)].at = at], Frame(low, high))]
  /\ UNCHANGED <<input, array, n, inside, call, alive, main>>

Returns(i) == frames' = [frames EXCEPT ![i] = SubSeq(@, 1, Len(@) - 1)]

\* merge_sort(low, half)
SortFirst(i) ==
  /\ Sorting(i, "start")
  /\ Top(i).low < Top(i).high
  /\ Calls(i, "first", Top(i).low, Half(i))

\* Nothing to sort.
SortNone(i) ==
  /\ Sorting(i, "start")
  /\ Top(i).low >= Top(i).high
  /\ Returns(i)
  /\ UNCHANGED <<input, array, n, inside, call, alive, main>>

\* merge_sort(half + 1, high)
SortSecond(i) ==
  /\ Sorting(i, "first")
  /\ Calls(i, "second", Half(i) + 1, Top(i).high)

\* merge(low, half, high)
MergeHalves(i) ==
  /\ Sorting(i, "second")
  /\ Enter(i, Top(i).low, Half(i), Top(i).high)
  /\ UNCHANGED <<input, array, n, frames, alive, main>>

\* merge returns, and merge_sort with it.
HalvesMerged(i) ==
  /\ Leave(i)
  /\ Returns(i)
  /\ UNCHANGED <<input, array, n, alive, main>>

-----------------------------------------------------------------------------
(* main.                                                                   *)

Init ==
  /\ \E len \in 0 .. MAXLENGTH : input \in [0 .. len - 1 -> Values]
  /\ array = input
  /\ n \in 1 .. MAXTHREADS
  /\ frames = [i \in Threads |-> <<>>]
  /\ inside = {}
  /\ call = [c \in Callers |-> NoCall]
  /\ alive = {}
  /\ main = <<"create", 0>>

\* The next turn of main's loop, or the first of the next phase.
NextTurn(phase, i, next, first) ==
  main' = IF i + 1 < n THEN <<phase, i + 1>> ELSE <<next, first>>

\* pthread_create(&array_threads[i], NULL, thread_routine, arg_t)
Create(i) ==
  /\ main = <<"create", i>>
  /\ alive' = alive \cup {i}
  /\ frames' = [frames EXCEPT ![i] = <<Frame(Left(i), Right(i))>>]
  /\ NextTurn("create", i, "join", 0)
  /\ UNCHANGED <<input, array, n, inside, call>>

\* Mutant: a thread without elements waits for some.
FinishSorted(i) ==
  /\ i \in alive
  /\ frames[i] = <<>>
  /\ Slice(LENGTH_ARRAY, n, i) # {}
  /\ alive' = alive \ {i}
  /\ UNCHANGED <<input, array, n, frames, inside, call, main>>

\* thread_routine returns.
Finish(i) ==
  /\ i \in alive
  /\ frames[i] = <<>>
  /\ alive' = alive \ {i}
  /\ UNCHANGED <<input, array, n, frames, inside, call, main>>

\* pthread_join(array_threads[i], &msg_thread)
Join(i) ==
  /\ main = <<"join", i>>
  /\ i \notin alive
  /\ NextTurn("join", i, "merge", 1)
  /\ UNCHANGED <<input, array, n, frames, inside, call, alive>>

\* Mutant: the slice is merged with its left neighbour only.
MergeNeighbour(i) ==
  /\ main = <<"merge", i>>
  /\ i < n
  /\ Main \notin inside
  /\ Enter(Main, Left(i - 1), Left(i) - 1, Right(i))
  /\ UNCHANGED <<input, array, n, frames, alive, main>>

\* merge(arg_left->ind_left, arg_right->ind_left - 1, arg_right->ind_right)
MergeSlice(i) ==
  /\ main = <<"merge", i>>
  /\ i < n
  /\ Main \notin inside
  /\ Enter(Main, Left(0), Left(i) - 1, Right(i))
  /\ UNCHANGED <<input, array, n, frames, alive, main>>

\* That merge returns.
SliceMerged(i) ==
  /\ main = <<"merge", i>>
  /\ Leave(Main)
  /\ main' = <<"merge", i + 1>>
  /\ UNCHANGED <<input, array, n, frames, alive>>

Done == main[1] = "merge" /\ main[2] >= n

-----------------------------------------------------------------------------

Take(c) == TakeLeft(c) \/ TakeRight(c)

ThreadStep(i) ==
  \/ SortFirst(i) \/ SortNone(i) \/ SortSecond(i) \/ MergeHalves(i)
  \/ Take(i) \/ HalvesMerged(i) \/ Finish(i)

MainStep ==
  \/ \E i \in Threads : Create(i) \/ Join(i) \/ MergeSlice(i) \/ SliceMerged(i)
  \/ Take(Main)

Next ==
  \/ MainStep
  \/ \E i \in Threads : ThreadStep(i)
  \/ Done /\ UNCHANGED vars

Spec == Init /\ [][Next]_vars

\* Every thread is scheduled, and so is main.
FairSpec ==
  /\ Spec
  /\ WF_vars(MainStep)
  /\ \A i \in 0 .. MAXTHREADS - 1 : WF_vars(i \in Threads /\ ThreadStep(i))

-----------------------------------------------------------------------------
(* Properties.                                                             *)

Sorted(arr, low, high) == \A k, m \in low .. high : k <= m => arr[k] <= arr[m]

Count(arr, v) == Cardinality({k \in DOMAIN arr : arr[k] = v})

\* What main prints is the numbers that were read, in order.
PrintsSorted ==
  Done => Sorted(array, 0, LENGTH_ARRAY - 1) /\ \A v \in Values : Count(array, v) = Count(input, v)

Sequential == INSTANCE MergeSequential

\* The program with threads prints what merge.c prints, for the same numbers.
PrintsAsSequential == Done => array = Sequential!main(input, LENGTH_ARRAY)

\* What a call of merge reads and writes.
Reach(c) == call[c].low .. call[c].high

\* Two calls of merge at the same time, main's among them, touch no element in
\* common and none outside the array: it needs no lock.
NoRace ==
  /\ \A c \in inside : Reach(c) \subseteq DOMAIN array
  /\ \A c \in inside : LeftLeft(c) \/ RightLeft(c) => call[c].ind_array \in Reach(c)
  /\ \A c, d \in inside : c # d => Reach(c) \cap Reach(d) = {}

\* When main turns to slice i, all slices before it are one sorted block.
PrefixSorted ==
  main[1] = "merge" /\ main[2] < n /\ Main \notin inside => Sorted(array, 0, Left(main[2]) - 1)

\* The program gets to the printing.
Terminates == <>Done
=============================================================================
