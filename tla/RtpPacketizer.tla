---------------------------- MODULE RtpPacketizer -----------------------------
(***************************************************************************)
(* From the encoder's bytes to RTP packets: NaluParser cuts the stream of  *)
(* a frame into NALUs, and H264RtpSink::handleFrame sends them.  A NALU    *)
(* that fits is a packet of its own; a longer one is cut into FU-A         *)
(* fragments.  One step per sendRtpPacket.  The bytes of a NALU are their  *)
(* offsets: a packet carries the offsets from..to of data.                 *)
(***************************************************************************)
EXTENDS NaluParser

CONSTANTS RTP_MAX_PKT_SIZE,  \* bytes of a NALU in one packet
          mClockRate, mFps,
          SeqWrap, TsWrap,   \* 2^16 and 2^32: where mSeq and mTimestamp wrap
          Encoded,           \* bound: what the encoder may write for a frame, as
                             \* sequences of NALUs [code, bytes]
          MaxFrames          \* bound: frames

ASSUME RtpAssumption ==
    /\ RTP_MAX_PKT_SIZE \in Nat \ {0}
    /\ mFps \in Nat \ {0}
    /\ mClockRate \in Nat /\ mClockRate >= mFps
    /\ SeqWrap \in Nat \ {0}
    /\ TsWrap \in Nat /\ TsWrap > mClockRate
    /\ \A nalus \in Encoded : /\ nalus # <<>>
                              /\ nalus \in Seq([code : {3, 4}, bytes : Seq(Nat)])
    /\ MaxFrames \in Nat

Kinds == {"single", "start", "middle", "end"}

VARIABLES input,       \* what the encoder wrote for the frame in handleFrame
          frame,       \* its NALUs: mSizeArr, and where in the stream they begin
          nalu,        \* the NALU it is at, 0 outside handleFrame
          i, pos,      \* full fragments sent of this NALU, next byte to send
          mSeq, mTimestamp,
          frames,      \* number of handleFrame calls so far
          sent         \* history: the packets, each with its frame and NALU

rtpVars == <<input, frame, nalu, i, pos, mSeq, mTimestamp, frames, sent>>

NoInput == [parser |-> "none", nalus |-> <<>>]

RtpInit ==
    /\ input = NoInput
    /\ frame = <<>>
    /\ nalu = 0
    /\ i = 0
    /\ pos = 1
    /\ mSeq = 0
    /\ mTimestamp = 0
    /\ frames = 0
    /\ sent = <<>>

frameSize == frame[nalu].size
pktNum == frameSize \div RTP_MAX_PKT_SIZE
remainPktSize == frameSize % RTP_MAX_PKT_SIZE

ParseH264(parser, data) ==
    IF parser = "utils" THEN UtilsParseH264(data) ELSE CaptureParseH264(data)

\* timeoutCallback hands over a frame that readFrame (Linux) or the capture (Windows)
\* has filled; an empty mSizeArr is possible.
HandleFrame(parser, nalus) ==
    /\ nalu = 0
    /\ frames < MaxFrames
    /\ input' = [parser |-> parser, nalus |-> nalus]
    /\ frame' = ParseH264(parser, AnnexB(nalus))
    /\ nalu' = 1
    /\ frames' = frames + 1
    /\ UNCHANGED <<i, pos, mSeq, mTimestamp, sent>>

SameSeq == mSeq
NextSeq == (mSeq + 1) % SeqWrap

\* sendRtpPacket, with the mSeq++ that follows each of its three calls.
SendRtpPacket(kind, from, size) ==
    /\ sent' = Append(sent, [frame |-> frames, nalu |-> nalu, length |-> frameSize,
                             kind |-> kind, from |-> from, to |-> from + size - 1,
                             seq |-> mSeq, ts |-> mTimestamp])
    /\ mSeq' = NextSeq

NextNalu ==
    /\ nalu' = nalu + 1
    /\ i' = 0
    /\ pos' = 1

InFrame == nalu \in 1..Len(frame)

SendSingle ==
    /\ InFrame
    /\ frameSize <= RTP_MAX_PKT_SIZE
    /\ SendRtpPacket("single", 0, frameSize)
    /\ NextNalu
    /\ UNCHANGED <<input, frame, mTimestamp, frames>>

\* The FU header of the i-th full fragment.
NeverLast == IF i = 0 THEN "start" ELSE "middle"
FuHeader == IF i = 0 THEN "start"
            ELSE IF remainPktSize = 0 /\ i = pktNum - 1 THEN "end" ELSE "middle"

Overlapping == pos + RTP_MAX_PKT_SIZE - 1
NextPos == pos + RTP_MAX_PKT_SIZE

SendFull ==
    /\ InFrame
    /\ frameSize > RTP_MAX_PKT_SIZE
    /\ i < pktNum
    /\ SendRtpPacket(FuHeader, pos, RTP_MAX_PKT_SIZE)
    /\ IF i = pktNum - 1 /\ remainPktSize = 0
       THEN NextNalu
       ELSE i' = i + 1 /\ pos' = NextPos /\ nalu' = nalu
    /\ UNCHANGED <<input, frame, mTimestamp, frames>>

SendRest ==
    /\ InFrame
    /\ frameSize > RTP_MAX_PKT_SIZE
    /\ i = pktNum
    /\ remainPktSize > 0
    /\ SendRtpPacket("end", pos, remainPktSize)
    /\ NextNalu
    /\ UNCHANGED <<input, frame, mTimestamp, frames>>

NextTimestamp == (mTimestamp + mClockRate \div mFps) % TsWrap

\* handleFrame advances the timestamp, and putFrame clears mSizeArr.
FrameDone ==
    /\ nalu > Len(frame)
    /\ nalu' = 0
    /\ input' = NoInput
    /\ frame' = <<>>
    /\ mTimestamp' = NextTimestamp
    /\ UNCHANGED <<i, pos, mSeq, frames, sent>>

RtpNext ==
    \/ \E parser \in {"utils", "capture"}, nalus \in Encoded : HandleFrame(parser, nalus)
    \/ SendSingle
    \/ SendFull
    \/ SendRest
    \/ FrameDone

RtpSpec == RtpInit /\ [][RtpNext]_rtpVars
------------------------------------------------------------------------------
Packets == [frame : 1..MaxFrames, nalu : 1..MaxNaluNum, length : Nat, kind : Kinds,
            from : Nat, to : Nat, seq : 0..(SeqWrap - 1), ts : 0..(TsWrap - 1)]

RtpTypeOK ==
    /\ input.parser \in {"none", "utils", "capture"}
    /\ frame \in Seq([from : Nat, size : Nat \ {0}]) /\ Len(frame) <= MaxNaluNum
    /\ nalu \in 0..(Len(frame) + 1)
    /\ i \in Nat
    /\ pos \in Nat
    /\ mSeq \in 0..(SeqWrap - 1)
    /\ mTimestamp \in 0..(TsWrap - 1)
    /\ frames \in 0..MaxFrames
    /\ sent \in Seq(Packets)

Utils == input.parser = "utils"
Offset == IF Utils THEN mNaluOffset ELSE StartCodeLength(AnnexB(input.nalus))

\* Of a stream that keeps to H.264 and to one length of start code, the parsers give
\* back the NALUs the encoder wrote, each with its first byte and its size and in
\* their order, but for those that no buffer takes.  The capture's parser holds this
\* for NALUs below the limit only, and adds the byte behind the stream to the last
\* NALU (WinCapMediaSource.cpp:558-560).
ParsedNalus ==
    /\ input # NoInput
    /\ LegalStream(input.nalus, Offset)
    /\ Utils \/ \A j \in DOMAIN input.nalus : Len(input.nalus[j].bytes) < MaxNaluSize
    => /\ Len(frame) = Room(Cardinality(Kept(input.nalus)))
       /\ \A j \in Kept(input.nalus) : Rank(input.nalus, j) <= MaxNaluNum =>
             frame[Rank(input.nalus, j)] =
                 [from |-> FirstByte(input.nalus, j),
                  size |-> Len(input.nalus[j].bytes)
                               + IF ~Utils /\ j = Len(input.nalus) THEN 1 ELSE 0]

Begins(p) == p.kind \in {"single", "start"}
Ends(p) == p.kind \in {"single", "end"}

Consecutive ==
    /\ sent # <<>> => mSeq = (Last(sent).seq + 1) % SeqWrap
    /\ \A j \in 1..(Len(sent) - 1) : sent[j + 1].seq = (sent[j].seq + 1) % SeqWrap

OneTimestampPerFrame ==
    \A p, q \in ToSet(sent) :
        /\ p.frame = q.frame => p.ts = q.ts
        /\ p.frame = q.frame + 1 => p.ts # q.ts

\* A receiver sees a gap in the sequence numbers only when a packet was lost, although
\* each of the three calls of sendRtpPacket (29, 67, 81) has its own mSeq++, and it
\* knows where a frame ends, although the marker bit is never set (RtpSink.cpp:34):
\* all packets of a frame, and none of the next, have its timestamp.
Numbered == Consecutive /\ OneTimestampPerFrame

\* The fragments of a NALU can be put together: a first, then a last one, never
\* both in one, bytes that follow each other from offset 1 (the FU header carries
\* byte 0) and reach the end of the NALU, and no other packet in between.
Reassembles ==
    /\ \A j \in 1..Len(sent) : LET p == sent[j] IN
          /\ p.from = CASE p.kind = "single" -> 0
                        [] p.kind = "start" -> 1
                        [] OTHER -> sent[j - 1].to + 1
          /\ Ends(p) => p.to >= p.length - 1
          /\ Begins(p) <=> (j > 1 => Ends(sent[j - 1]))
          /\ ~Begins(p) => /\ p.frame = sent[j - 1].frame
                           /\ p.nalu = sent[j - 1].nalu
    /\ nalu = 0 /\ sent # <<>> => Ends(Last(sent))

\* A receiver puts the a-th to the b-th packet of q together: numbered without a gap,
\* the first one with the beginning of a NALU, each with the bytes behind those before.
Coherent(q, a, b) ==
    /\ Begins(q[a])
    /\ q[a].from = IF q[a].kind = "single" THEN 0 ELSE 1
    /\ \A k \in (a + 1)..b :
          /\ ~Begins(q[k]) /\ ~Ends(q[k - 1])
          /\ q[k].frame = q[k - 1].frame /\ q[k].nalu = q[k - 1].nalu
          /\ q[k].from = q[k - 1].to + 1
          /\ q[k].seq = (q[k - 1].seq + 1) % SeqWrap

\* The NALUs it has, up to the last byte of each.
Arrived(q) ==
    {[frame |-> q[b].frame, nalu |-> q[b].nalu, length |-> q[b].length] :
        b \in {b \in 1..Len(q) : /\ Ends(q[b]) /\ q[b].to >= q[b].length - 1
                               /\ \E a \in 1..b : Coherent(q, a, b)}}

\* The packets keep the promise of NaluChannel: no NALU of a frame is passed over, sent
\* twice or sent in pieces that do not make it up, whatever its size, and a frame is not
\* given back (RtpSink.cpp:54) before all of it was sent.
Channel == INSTANCE NaluChannel WITH
    number  <- frames,
    sizes   <- [k \in DOMAIN frame |-> frame[k].size],
    next    <- nalu,
    arrived <- Arrived(sent)
ImplementsNaluChannel == Channel!CSpec

\* A packet carries bytes of its NALU only: what is sent last is "the remaining
\* data" (comments at 37 and 73).
OnlyItsBytes == \A p \in ToSet(sent) : p.to < p.length

\* What the fragments are instead, without exception: the last one of a NALU ends one
\* byte behind it, as pos begins at 1 (line 38) but pktNum and remainPktSize count
\* byte 0 again; all others end within it, and none is larger than the packet's buffer.
EndsOneLate ==
    \A p \in ToSet(sent) :
        /\ IF p.kind = "end" THEN p.to = p.length ELSE p.to < p.length
        /\ p.to - p.from < RTP_MAX_PKT_SIZE
==============================================================================
