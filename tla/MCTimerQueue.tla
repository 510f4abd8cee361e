---------------------------- MODULE MCTimerQueue ----------------------------
(***************************************************************************)
(* TimerQueue on small instances: two timers, with intervals of one and    *)
(* two ticks.                                                              *)
(***************************************************************************)
EXTENDS TimerQueue

Forever == -1
MCRepetitions == {Forever, 0, 2}
=============================================================================
