--------------------------- MODULE MCReaderWriter ---------------------------
(* Three readers and two writers. *)
EXTENDS ReaderWriter

CONSTANTS r1, r2, r3, w1, w2
ThreeReaders == {r1, r2, r3}
TwoWriters == {w1, w2}
=============================================================================
