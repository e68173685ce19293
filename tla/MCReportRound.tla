--------------------------- MODULE MCReportRound ----------------------------
(* Instances of ReportRound for TLC. *)
EXTENDS ReportRound

CONSTANTS e1, e2, e3

OneEngine == {e1}
TwoEngines == {e1, e2}
ThreeEngines == {e1, e2, e3}

QuietCodes == {0, 103, 104}
AllCodes == {0, 101, 103, 104, 7}
=============================================================================
