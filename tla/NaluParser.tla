------------------------------ MODULE NaluParser ------------------------------
(***************************************************************************)
(* The two functions that cut an H.264 byte stream into NALUs:             *)
(* Utils::parseH264, which the Linux encoder calls with a start code of    *)
(* four bytes, and parseH264 of the Windows capture, which takes the       *)
(* length of the first start code.  A byte is 0, 1 or 2, which stands for  *)
(* every other value; positions count from 0 as in the code.               *)
(***************************************************************************)
EXTENDS Integers, Sequences, SequencesExt

CONSTANTS MaxNaluSize,  \* H264_FRAME_MAX_NALU_SIZE
          MaxNaluNum,   \* H264_FRAME_MAX_NALU_NUM
          mNaluOffset   \* bytes of a start code, as the encoder assumes

ASSUME ParserAssumption ==
    /\ MaxNaluSize \in Nat
    /\ MaxNaluNum \in Nat
    /\ mNaluOffset = 4

\* length zero bytes, the last of them a 1.
StartCode(length) == [k \in 1..length |-> IF k = length THEN 1 ELSE 0]

CodeAt(data, p, length) ==
    /\ p + length <= Len(data)
    /\ \A k \in 1..length : data[p + k] = StartCode(length)[k]

\* What mBufferArr takes: a NALU that is empty or too long is left out, and so
\* are those after the first MaxNaluNum.
Take(nalus, first, size, limit) ==
    IF size > 0 /\ size <= limit /\ Len(nalus) < MaxNaluNum
    THEN Append(nalus, [from |-> first, size |-> size])
    ELSE nalus

\* Both loops look for the start code at i that ends the NALU whose own is at before;
\* the first one sought begins at 0 even when there is no start code there.
Begin == [i |-> 0, before |-> 0, nalus |-> <<>>]

\* How far the loop of Utils moves on from p: past the first byte that differs from
\* a start code.
SkipPair(data, p) ==
    IF data[p + 1] # 0 \/ data[p + 2] # 0 THEN 2 ELSE IF data[p + 3] # 0 THEN 3 ELSE 4
Advance(data, p) ==
    CASE data[p + 1] # 0 -> 1
      [] data[p + 1] = 0 /\ data[p + 2] # 0 -> 2
      [] data[p + 1] = 0 /\ data[p + 2] = 0 /\ data[p + 3] # 0 -> 3
      [] OTHER -> 4

UtilsStep(data, s) ==
    IF s.i + mNaluOffset > Len(data) THEN s
    ELSE IF CodeAt(data, s.i, mNaluOffset)
         THEN [i      |-> s.i + mNaluOffset,
               before |-> s.i,
               nalus  |-> Take(s.nalus, s.before + mNaluOffset,
                               s.i - s.before - mNaluOffset, MaxNaluSize)]
         ELSE [s EXCEPT !.i = s.i + Advance(data, s.i)]

\* The loop after each of its rounds, of which no more than Len(data) do anything.
UtilsScan(data) ==
    LET scan[k \in 0..Len(data)] == IF k = 0 THEN Begin ELSE UtilsStep(data, scan[k - 1])
    IN  scan

UtilsParseH264(data) ==
    LET s == UtilsScan(data)[Len(data)]
    IN  Take(s.nalus, s.before + mNaluOffset, Len(data) - s.before - mNaluOffset, MaxNaluSize)

StartCodeLength(data) ==
    IF CodeAt(data, 0, 4) THEN 4 ELSE IF CodeAt(data, 0, 3) THEN 3 ELSE 0

\* The capture's loop looks at every position.
CaptureStep(data, offset, s) ==
    IF s.i + offset > Len(data) THEN s
    ELSE IF offset > 0 /\ CodeAt(data, s.i, offset)
         THEN [i      |-> s.i + 1,
               before |-> s.i,
               nalus  |-> Take(s.nalus, s.before + offset,
                               s.i - s.before - offset, MaxNaluSize)]
         ELSE [s EXCEPT !.i = s.i + 1]

CaptureScan(data, offset) ==
    LET scan[k \in 0..(Len(data) + 1)] ==
            IF k = 0 THEN Begin ELSE CaptureStep(data, offset, scan[k - 1])
    IN  scan

\* The capture takes i - before bytes for the last NALU, where the loop has left i
\* one too far: the byte behind the stream is in it.  The limit on its size is
\* compared with a number that is offset less.
CaptureParseH264(data) ==
    LET offset == StartCodeLength(data)
        s      == CaptureScan(data, offset)[Len(data) + 1]
    IN  Take(s.nalus, s.before + offset, s.i - s.before, MaxNaluSize + offset)
------------------------------------------------------------------------------
\* What an encoder writes: NALUs, each behind a start code of its own length.
\* Streams(nalus)[j] is the stream up to the j-th.

Streams(nalus) ==
    LET upTo[j \in 0..Len(nalus)] ==
            IF j = 0 THEN <<>>
            ELSE upTo[j - 1] \o (StartCode(nalus[j].code) \o nalus[j].bytes)
    IN  upTo

AnnexB(nalus) == Streams(nalus)[Len(nalus)]

\* Where the j-th start code and the first byte of its NALU are: the reference the
\* parsers are held against.
CodePos(nalus, j) == Len(Streams(nalus)[j - 1])
FirstByte(nalus, j) == CodePos(nalus, j) + nalus[j].code

\* The NALUs that are not too long, and which of them the j-th one is: mBufferArr has
\* room for the first of them.
Kept(nalus) == {j \in DOMAIN nalus : Len(nalus[j].bytes) <= MaxNaluSize}
Rank(nalus, j) == Cardinality({k \in Kept(nalus) : k <= j})
Room(n) == IF n < MaxNaluNum THEN n ELSE MaxNaluNum

\* H.264 has no start code, nor three zeros, within a NALU and no zero at its end.
LegalNalu(bytes) ==
    /\ bytes # <<>>
    /\ bytes[Len(bytes)] # 0
    /\ \A k \in 1..(Len(bytes) - 2) :
          ~(bytes[k] = 0 /\ bytes[k + 1] = 0 /\ bytes[k + 2] \in {0, 1})

LegalStream(nalus, offset) ==
    \A j \in DOMAIN nalus : nalus[j].code = offset /\ LegalNalu(nalus[j].bytes)
==============================================================================
