--------------------------- MODULE MCRtpPacketizer ----------------------------
(***************************************************************************)
(* Instances of RtpPacketizer for TLC: packets of two bytes and NALUs of   *)
(* one to six, so that a NALU fits, is an exact multiple and leaves a      *)
(* rest, with two and with three fragments; sequence numbers wrap at 4,    *)
(* timestamps at 8.  The parsers meet every NALU of up to MaxBytes bytes,  *)
(* alone and before another one, with both lengths of start code, and      *)
(* NALUs that are too long or too many.  MCRtpPacketizer.cfg checks the    *)
(* packets of two frames, MCRtpPacketizerBytes.cfg those of one.           *)
(***************************************************************************)
EXTENDS RtpPacketizer

CONSTANT MaxBytes  \* bound: bytes of a NALU with every content

Nalus(bytes) == [code : {3, 4}, bytes : bytes]
AnyBytes == SeqOf(0..2, MaxBytes) \ {<<>>}
Long == {[k \in 1..n |-> 2] : n \in 1..7}

MCEncoded ==
    {<<n>> : n \in Nalus(AnyBytes \cup Long)}
        \cup {<<m, n>> : m \in Nalus(AnyBytes), n \in Nalus({<<2>>, <<0, 2>>, <<0, 0, 2>>})}
        \cup {<<m, n>> : m, n \in Nalus(Long)}
        \cup {<<l, m, n>> : l, m, n \in Nalus({<<2>>, <<2, 2>>})}
==============================================================================
