--------------------------- MODULE MCFramePipeline ---------------------------
(***************************************************************************)
(* Instances of FramePipeline for TLC.  Two pool threads (the program runs *)
(* one task queue with two threads), two clients, each with a thread of its*)
(* own for its commands, two devices and two frames, so that each can be   *)
(* busy with a frame or a device of its own.  MCFramePipeline.cfg: every   *)
(* call may fail, and four commands to show a device.  ...Stop.cfg: the    *)
(* fair pipeline, a device is shown only when none is selected, two such   *)
(* commands, and reads may fail.  ...Nalu.cfg: v4l2_qbuf may fail.         *)
(***************************************************************************)
EXTENDS FramePipeline, TLC

\* Threads are interchangeable, and so are devices and clients.
Symmetry == Permutations(Readers) \cup Permutations(Devs) \cup Permutations(Clients)
==============================================================================
