------------------------ MODULE MCFirstController ------------------------
EXTENDS FirstController

Flight(d, g, n, s, a) ==
  [distance |-> d, gasoline |-> g, descents |-> n, shocks |-> s, alarms |-> a]

\* High up, where the landing starts again, at a meter and on the ground; with
\* gasoline to spare and with too little of it.
SomeFlights ==
  {Flight(8, 20, 0, 1, 1), Flight(8, 20, 0, 0, 2), Flight(6, 20, 2, 1, 0),
   Flight(4, 20, 1, 1, 0), Flight(1, 20, 0, 1, 0), Flight(1, 20, 1, 0, 1),
   Flight(0, 20, 2, 0, 0),
   Flight(8, 6, 1, 1, 0), Flight(8, 6, 1, 0, 1), Flight(1, 6, 0, 1, 0)}

Tilts == {-1, 1}
AlarmCodes == {102, 103, 104}

=============================================================================
