---------------------------- MODULE MCThreadPool -----------------------------
(***************************************************************************)
(* Instances of ThreadPool for TLC.  MCThreadPool.cfg: three threads, made *)
(* one per createThreads, so that a pool of one, two and three threads and *)
(* a pool created again after a cancel all occur; addTask may come late.   *)
(* The specification is the fair one, for the two liveness properties.     *)
(***************************************************************************)
EXTENDS ThreadPool
==============================================================================
