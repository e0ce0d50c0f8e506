-------------------------- MODULE MCWinTimerManager --------------------------
(***************************************************************************)
(* Instances of WinTimerManager for TLC: one-shot timers and timers with   *)
(* period 2, on a clock of three instants, and two callers that add and    *)
(* remove at any point of timerLoop, callbacks and waits included.  The    *)
(* specification is the fair one, for the two liveness properties.         *)
(***************************************************************************)
EXTENDS WinTimerManager
==============================================================================
