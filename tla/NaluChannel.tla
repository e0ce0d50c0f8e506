----------------------------- MODULE NaluChannel ------------------------------
(***************************************************************************)
(* What an RTP sink promises to the receiver, without packets: of every    *)
(* frame it is given each NALU arrives, whole, once and in its order, and  *)
(* all of them before the next frame is begun.                             *)
(***************************************************************************)
EXTENDS Naturals, Sequences

VARIABLES number,    \* frames so far
          sizes,     \* the lengths of the NALUs of this frame
          next,      \* the NALU that arrives next, 0 between frames
          arrived    \* NALUs that the receiver has

cvars == <<number, sizes, next, arrived>>

CInit ==
    /\ number = 0
    /\ sizes = <<>>
    /\ next = 0
    /\ arrived = {}

Accept ==
    /\ next = 0
    /\ number' = number + 1
    /\ sizes' \in Seq(Nat \ {0})
    /\ next' = 1
    /\ UNCHANGED arrived

Arrive ==
    /\ next \in 1..Len(sizes)
    /\ arrived' = arrived \cup {[frame |-> number, nalu |-> next, length |-> sizes[next]]}
    /\ next' = next + 1
    /\ UNCHANGED <<number, sizes>>

Finish ==
    /\ next > Len(sizes)
    /\ next' = 0
    /\ sizes' = <<>>
    /\ UNCHANGED <<number, arrived>>

CNext == Accept \/ Arrive \/ Finish

CSpec == CInit /\ [][CNext]_cvars
==============================================================================
