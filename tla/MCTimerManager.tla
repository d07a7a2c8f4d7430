--------------------------- MODULE MCTimerManager ---------------------------
(* TimerManager on small instances: the values are in the cfg. *)
EXTENDS TimerManager

\* The clock goes on by one or by several beats, or is set back by one.
MCClockSteps == {1, 3, -2}
=============================================================================
