------------------------- MODULE MCLinuxTimerManager --------------------------
(***************************************************************************)
(* Instance of LinuxTimerManager for TLC: three timers, so that a callback *)
(* can add or remove a second one while a third waits, single and periodic *)
(* ones, and a clock long enough for a period to pass during a callback.   *)
(***************************************************************************)
EXTENDS LinuxTimerManager
==============================================================================
