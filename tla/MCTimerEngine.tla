--------------------------- MODULE MCTimerEngine ---------------------------
(***************************************************************************)
(* TimerEngine for TLC.                                                    *)
(***************************************************************************)
EXTENDS TimerEngine
=============================================================================
