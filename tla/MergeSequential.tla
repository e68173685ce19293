--------------------------- MODULE MergeSequential --------------------------
(***************************************************************************)
(* Tareas/Merge/merge.c, the merge sort without threads, index by index.   *)
(* Reading the numbers and printing them are left out.                     *)
(***************************************************************************)
EXTENDS Integers

\* A turn of one of the three loops: arr[k] becomes L[i] or R[j], whichever is
\* due, and k is l + i + j.
Turn(t, L, R, l) ==
  LET k == l + t.i + t.j IN
  IF t.i \in DOMAIN L /\ (t.j \in DOMAIN R => L[t.i] <= R[t.j])
  THEN [arr |-> [t.arr EXCEPT ![k] = L[t.i]], i |-> t.i + 1, j |-> t.j]
  ELSE [arr |-> [t.arr EXCEPT ![k] = R[t.j]], i |-> t.i, j |-> t.j + 1]

\* What has become of arr after so many turns.
Turns(arr, L, R, l, n) ==
  LET after[k \in 0 .. n] ==
        IF k = 0 THEN [arr |-> arr, i |-> 0, j |-> 0] ELSE Turn(after[k - 1], L, R, l)
  IN after

\* n1 numbers from l on and n2 from m + 1 on, copied and merged.
Merged(arr, l, m, n1, n2) ==
  LET L == [i \in 0 .. n1 - 1 |-> arr[l + i]]
      R == [j \in 0 .. n2 - 1 |-> arr[m + 1 + j]]
  IN Turns(arr, L, R, l, n1 + n2)[n1 + n2].arr

\* Mutant: the last number of the right half stays out.
mergeShort(arr, l, m, r) == Merged(arr, l, m, m - l + 1, r - m - 1)

merge(arr, l, m, r) == Merged(arr, l, m, m - l + 1, r - m)

\* mergeSort(arr, l, r) of an array of that size, as a function of <<arr, l, r>>.
mergeSort(size) ==
  LET sort[c \in [0 .. size - 1 -> Int] \X (0 .. size) \X (-1 .. size - 1)] ==
        LET arr == c[1]
            l == c[2]
            r == c[3]
            m == (l + r) \div 2
        IN IF l < r THEN merge(sort[<<sort[<<arr, l, m>>], m + 1, r>>], l, m, r) ELSE arr
  IN sort

main(numbers, size) == mergeSort(size)[<<numbers, 0, size - 1>>]

=============================================================================
