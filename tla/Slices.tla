------------------------------- MODULE Slices -------------------------------
(***************************************************************************)
(* How main of Tareas/Merge/merge_threads.c cuts the array into one slice  *)
(* for each thread: len elements each, the rest to the last.               *)
(***************************************************************************)
EXTENDS Integers

\* The length of a slice (int len).
Share(LENGTH_ARRAY, NUMBER_THREADS) == LENGTH_ARRAY \div NUMBER_THREADS

ind_left(LENGTH_ARRAY, NUMBER_THREADS, i) == i * Share(LENGTH_ARRAY, NUMBER_THREADS)

\* Mutant: one element too many.
ind_rightOver(LENGTH_ARRAY, NUMBER_THREADS, i) ==
  IF i = NUMBER_THREADS - 1
  THEN LENGTH_ARRAY - 1
  ELSE ind_left(LENGTH_ARRAY, NUMBER_THREADS, i) + Share(LENGTH_ARRAY, NUMBER_THREADS)

ind_right(LENGTH_ARRAY, NUMBER_THREADS, i) ==
  IF i = NUMBER_THREADS - 1
  THEN LENGTH_ARRAY - 1
  ELSE ind_left(LENGTH_ARRAY, NUMBER_THREADS, i) + Share(LENGTH_ARRAY, NUMBER_THREADS) - 1

\* The indices of a thread's slice, ind_left .. ind_right.
Slice(LENGTH_ARRAY, NUMBER_THREADS, i) ==
  ind_left(LENGTH_ARRAY, NUMBER_THREADS, i) .. ind_right(LENGTH_ARRAY, NUMBER_THREADS, i)

=============================================================================
