----------------------------- MODULE MCShutdown -----------------------------
(* Instances of Shutdown for TLC. *)
EXTENDS Shutdown

CONSTANTS e1, e2

TwoEngines == {e1, e2}
Codes == {0, 101, 104}

\* Bound: the program is ended, by a landing or by alarm 104, before main
\* releases the first round.
FirstRound == main_pc # "post"
=============================================================================
