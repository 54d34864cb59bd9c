--------------------------- MODULE RpcFramingProofs ---------------------------
(***************************************************************************)
(* Proofs about RpcFraming, for any size of the buffer and of the length   *)
(* field, any number of frames and packets of any length.                  *)
(***************************************************************************)
EXTENDS RpcFraming, TLAPS

USE RpcFramingAssumption

\* The stream is one of frames, and no more than that is read.
StreamInv == IsStream(start) /\ pos <= StreamLen

IInv ==
  TypeOK /\ StreamInv /\ PacketsIntact /\ FrameAligned /\ RoomToRead /\ ErrorOnlyTooBig

\* Every read and every turn of the parsing loop keeps the invariant.
LEMMA InvStep == IInv /\ [Next]_vars => IInv'
<1> SUFFICES ASSUME IInv, [Next]_vars PROVE IInv'
  OBVIOUS
<1> DEFINE top == Frames * (HeaderLen + MaxPacket)
           L == Len(packets)
<1>0. TypeOK /\ StreamInv /\ PacketsIntact /\ FrameAligned /\ RoomToRead /\ ErrorOnlyTooBig
  BY DEF IInv
<1>1. CASE UNCHANGED vars
  BY <1>0, <1>1 DEF vars, IInv, TypeOK, StreamInv, IsStream, StreamLen, PacketsIntact, PacketLen,
     FrameAligned, dataLen, RoomToRead, ErrorOnlyTooBig
<1>p. top \in Nat /\ Positions = 0 .. top
  BY DEF Positions
<1> HIDE DEF top
\* The state in numbers.
<1>t. /\ \A k \in 1 .. Frames + 1 : start[k] \in 0 .. top
      /\ StreamLen \in 0 .. top /\ pos \in 0 .. top /\ pos <= StreamLen
      /\ bufferDataLen \in 0 .. BufferSize /\ frameStart \in 0 .. BufferSize
      /\ L \in Nat
  BY <1>0, <1>p DEF TypeOK, StreamInv, StreamLen
<1>s. \A k \in 1 .. Frames : PacketLen(k) \in Nat /\ start[k + 1] = start[k] + HeaderLen + PacketLen(k)
  BY <1>0, <1>t DEF StreamInv, IsStream, PacketLen
<1>2. ASSUME NEW n \in 1 .. BufferSize, Read(n) PROVE IInv'
  <2>0. /\ pos + n <= StreamLen /\ n <= BufferSize - bufferDataLen /\ ~closed
        /\ pos' = pos + n /\ bufferDataLen' = bufferDataLen + n /\ parsing' = TRUE
        /\ UNCHANGED <<start, frameStart, closed, packets>>
    BY <1>2 DEF Read
  <2>b. /\ buffer' = [i \in 0 .. BufferSize - 1 |->
                        IF i >= bufferDataLen /\ i < bufferDataLen + n
                        THEN pos + (i - bufferDataLen) ELSE buffer[i]]
    BY <1>2 DEF Read
  <2>1. TypeOK'
    <3>1. buffer' \in [0 .. BufferSize - 1 -> Positions]
      BY <1>0, <1>p, <1>t, <2>0, <2>b DEF TypeOK
    <3>2. pos' \in Positions /\ bufferDataLen' \in 0 .. BufferSize
      BY <1>p, <1>t, <2>0
    <3> QED
      BY <1>0, <2>0, <3>1, <3>2 DEF TypeOK
  <2>2. StreamInv'
    BY <1>0, <2>0 DEF StreamInv, IsStream, StreamLen
  <2>3. PacketsIntact' /\ RoomToRead' /\ ErrorOnlyTooBig'
    BY <1>0, <2>0 DEF PacketsIntact, RoomToRead, ErrorOnlyTooBig, PacketLen
  <2>4. FrameAligned'
    BY <1>0, <1>t, <2>0, <2>b DEF FrameAligned, dataLen
  <2> QED
    BY <2>1, <2>2, <2>3, <2>4 DEF IInv
<1>3. ASSUME NEW k \in 1 .. Frames, ParseFrame(k) PROVE IInv'
  <2> DEFINE end == frameStart + HeaderLen + PacketLen(k)
  <2>0. /\ ~closed /\ Complete(k) /\ packets' = Append(packets, PacketAt(k)) /\ AfterFrame(end)
        /\ parsing' = (bufferDataLen' > frameStart')
        /\ UNCHANGED <<start, pos, buffer, closed>>
    BY <1>3 DEF ParseFrame
  <2>e. end \in Nat /\ end <= bufferDataLen
    BY <1>t, <1>s, <2>0 DEF Complete, dataLen
  <2>f. /\ frameStart <= bufferDataLen /\ L <= Frames
        /\ start[L + 1] = pos - dataLen
        /\ \A i \in frameStart .. bufferDataLen - 1 : buffer[i] = pos - bufferDataLen + i
    BY <1>0, <2>0 DEF FrameAligned
  <2>k. k = L + 1
    <3>1. buffer[frameStart] = start[k]
      BY <1>t, <2>0 DEF Complete, HeaderOf
    <3>2. buffer[frameStart] = start[L + 1]
      BY <1>t, <2>f, <2>0 DEF Complete, HeaderOf, dataLen
    <3>3. L + 1 \in 1 .. Frames + 1
      BY <1>t, <2>f
    <3>4. \A i, j \in 1 .. Frames + 1 : i < j => start[i] + HeaderLen <= start[j]
      BY <1>0 DEF StreamInv, IsStream
    <3>5. k \in 1 .. Frames + 1
      OBVIOUS
    <3>6. start[k] \in 0 .. top
      BY <1>t, <3>5
    <3> HIDE DEF L
    <3>7. start[k] = start[L + 1] /\ start[k] \in Nat
      BY <1>p, <3>1, <3>2, <3>6
    <3>8. ~(k < L + 1) /\ ~(L + 1 < k)
      BY <3>3, <3>4, <3>7, <3>5
    <3> QED
      BY <3>3, <3>8
  <2>a. \/ /\ end = BufferSize /\ bufferDataLen = BufferSize
           /\ frameStart' = 0 /\ bufferDataLen' = 0
        \/ end # BufferSize /\ frameStart' = end /\ bufferDataLen' = bufferDataLen
    BY <1>t, <2>0, <2>e DEF AfterFrame
  <2>g. PacketAt(k) = [j \in 1 .. PacketLen(k) |-> start[k] + HeaderLen + j - 1]
    <3>1. \A j \in 1 .. PacketLen(k) :
            buffer[frameStart + HeaderLen + j - 1] = start[k] + HeaderLen + j - 1
      <4> SUFFICES ASSUME NEW j \in 1 .. PacketLen(k)
                   PROVE  buffer[frameStart + HeaderLen + j - 1] = start[k] + HeaderLen + j - 1
        OBVIOUS
      <4>1. frameStart + HeaderLen + j - 1 \in frameStart .. bufferDataLen - 1
        BY <1>t, <1>s, <2>e
      <4>2. buffer[frameStart + HeaderLen + j - 1]
              = pos - bufferDataLen + (frameStart + HeaderLen + j - 1)
        BY <2>f, <4>1
      <4>3. start[k] = pos - (bufferDataLen - frameStart)
        BY <2>f, <2>k DEF dataLen
      <4> QED
        BY <1>t, <1>s, <4>2, <4>3
    <3> QED
      BY <3>1 DEF PacketAt
  <2>h. Len(packets') = L + 1
    BY <1>0, <2>0 DEF TypeOK
  <2>1. TypeOK'
    <3>1. \A j \in 1 .. PacketLen(k) : start[k] + HeaderLen + j - 1 \in Positions
      <4>1. start[k] \in 0 .. top /\ start[k + 1] \in 0 .. top
        BY <1>t
      <4>2. PacketLen(k) \in Nat /\ start[k + 1] = start[k] + HeaderLen + PacketLen(k)
        BY <1>s
      <4> QED
        BY <1>p, <4>1, <4>2
    <3>2. PacketAt(k) \in Seq(Positions)
      <4>1. PacketAt(k) \in [1 .. PacketLen(k) -> Positions]
        BY <2>g, <3>1
      <4>2. PacketLen(k) \in Nat
        BY <1>s
      <4> QED
        BY <4>1, <4>2
    <3>3. packets' \in Seq(Seq(Positions))
      BY <1>0, <2>0, <3>2 DEF TypeOK
    <3>4. frameStart' \in 0 .. BufferSize /\ bufferDataLen' \in 0 .. BufferSize
      BY <1>t, <2>a, <2>e
    <3> QED
      BY <1>0, <2>0, <3>3, <3>4 DEF TypeOK
  <2>2. StreamInv'
    BY <1>0, <2>0 DEF StreamInv, IsStream, StreamLen
  <2>3. PacketsIntact'
    <3>1. \A i \in 1 .. L : packets'[i] = packets[i]
      BY <1>0, <2>0 DEF TypeOK
    <3>2. packets'[L + 1] = PacketAt(k)
      BY <1>0, <2>0 DEF TypeOK
    <3> SUFFICES ASSUME NEW i \in 1 .. L + 1
                 PROVE  i <= Frames /\ packets'[i] = [j \in 1 .. PacketLen(i) |-> start[i] + HeaderLen + j - 1]
      BY <2>0, <2>h DEF PacketsIntact, PacketLen
    <3>3. CASE i \in 1 .. L
      BY <1>0, <3>1, <3>3 DEF PacketsIntact
    <3>4. CASE i = L + 1
      BY <2>g, <2>k, <3>2, <3>4
    <3> QED
      BY <1>t, <3>3, <3>4
  <2>4. FrameAligned'
    <3>1. start[L + 2] = pos - bufferDataLen + end /\ L + 1 <= Frames
      <4>1. start[k + 1] = start[k] + HeaderLen + PacketLen(k) /\ PacketLen(k) \in Nat
        BY <1>s
      <4>2. start[k] = pos - (bufferDataLen - frameStart)
        BY <2>f, <2>k DEF dataLen
      <4>3. k + 1 = L + 2 /\ L + 1 <= Frames
        BY <1>t, <2>k
      <4> QED
        BY <1>t, <4>1, <4>2, <4>3
    <3>2. /\ frameStart' <= bufferDataLen'
          /\ start[L + 2] = pos - (bufferDataLen' - frameStart')
      BY <1>t, <2>a, <2>e, <3>1
    <3>3. \A i \in frameStart' .. bufferDataLen' - 1 : buffer[i] = pos - bufferDataLen' + i
      <4>1. CASE frameStart' = 0 /\ bufferDataLen' = 0
        BY <4>1
      <4>2. CASE frameStart' = end /\ bufferDataLen' = bufferDataLen
        <5>1. end >= frameStart
          BY <1>t, <1>s
        <5> HIDE DEF end
        <5> QED
          BY <1>t, <2>e, <2>f, <4>2, <5>1
      <4> QED
        BY <2>a, <4>1, <4>2
    <3>4. L + 2 = Len(packets)' + 1 /\ Len(packets)' <= Frames
      BY <1>t, <2>h, <3>1
    <3> QED
      BY <2>0, <3>2, <3>3, <3>4 DEF FrameAligned, dataLen
  <2>5. RoomToRead' /\ ErrorOnlyTooBig'
    <3>1. ErrorOnlyTooBig'
      BY <2>0 DEF ErrorOnlyTooBig
    <3>2. bufferDataLen' > frameStart' \/ bufferDataLen' < BufferSize
      <4> HIDE DEF end
      <4> QED
        BY <1>t, <2>a, <2>e
    <3> QED
      BY <2>0, <3>1, <3>2 DEF RoomToRead
  <2> QED
    BY <2>1, <2>2, <2>3, <2>4, <2>5 DEF IInv
<1>4. CASE ParseWait
  <2>0. /\ bufferDataLen # BufferSize /\ parsing' = FALSE
        /\ UNCHANGED <<start, pos, buffer, bufferDataLen, frameStart, closed, packets>>
    BY <1>4 DEF ParseWait
  <2>1. TypeOK' /\ StreamInv'
    BY <1>0, <2>0 DEF TypeOK, StreamInv, IsStream, StreamLen
  <2>2. PacketsIntact' /\ ErrorOnlyTooBig'
    BY <1>0, <2>0 DEF PacketsIntact, ErrorOnlyTooBig, PacketLen
  <2>3. FrameAligned'
    BY <1>0, <2>0 DEF FrameAligned, dataLen
  <2>4. RoomToRead'
    BY <1>t, <2>0 DEF RoomToRead
  <2> QED
    BY <2>1, <2>2, <2>3, <2>4 DEF IInv
<1>5. CASE ParseMove
  <2>0. /\ bufferDataLen = BufferSize /\ frameStart # 0 /\ ~closed
        /\ bufferDataLen' = BufferSize - frameStart /\ frameStart' = 0 /\ parsing' = FALSE
        /\ UNCHANGED <<start, pos, closed, packets>>
    BY <1>5 DEF ParseMove
  <2>b. buffer' = [i \in 0 .. BufferSize - 1 |->
                     IF i < BufferSize - frameStart THEN buffer[i + frameStart] ELSE buffer[i]]
    BY <1>5 DEF ParseMove
  <2>1. TypeOK'
    <3>1. buffer' \in [0 .. BufferSize - 1 -> Positions]
      BY <1>0, <1>t, <2>b DEF TypeOK
    <3>2. bufferDataLen' \in 0 .. BufferSize /\ frameStart' \in 0 .. BufferSize
      BY <1>t, <2>0
    <3> QED
      BY <1>0, <2>0, <3>1, <3>2 DEF TypeOK
  <2>2. StreamInv'
    BY <1>0, <2>0 DEF StreamInv, IsStream, StreamLen
  <2>3. PacketsIntact' /\ RoomToRead' /\ ErrorOnlyTooBig'
    BY <1>0, <1>t, <2>0 DEF PacketsIntact, RoomToRead, ErrorOnlyTooBig, PacketLen
  <2>4. FrameAligned'
    BY <1>0, <1>t, <2>0, <2>b DEF FrameAligned, dataLen
  <2> QED
    BY <2>1, <2>2, <2>3, <2>4 DEF IInv
<1>6. CASE ParseTooBig
  <2>0. /\ Incomplete /\ bufferDataLen = BufferSize /\ frameStart = 0 /\ ~closed
        /\ closed' = TRUE /\ parsing' = FALSE
        /\ UNCHANGED <<start, pos, buffer, bufferDataLen, frameStart, packets>>
    BY <1>6 DEF ParseTooBig
  <2>1. TypeOK' /\ StreamInv'
    BY <1>0, <2>0 DEF TypeOK, StreamInv, IsStream, StreamLen
  <2>2. PacketsIntact' /\ RoomToRead' /\ FrameAligned'
    BY <1>0, <2>0 DEF PacketsIntact, RoomToRead, FrameAligned, PacketLen
  <2>3. ErrorOnlyTooBig'
    <3>1. /\ L <= Frames /\ start[L + 1] = pos - BufferSize
          /\ \A i \in 0 .. BufferSize - 1 : buffer[i] = pos - BufferSize + i
      BY <1>0, <1>t, <2>0 DEF FrameAligned, dataLen
    <3>2. L < Frames
      BY <1>t, <3>1 DEF StreamLen
    <3>3. L + 1 \in 1 .. Frames /\ HeaderOf(L + 1)
      BY <1>t, <2>0, <3>1, <3>2 DEF HeaderOf, dataLen
    <3>4. ~(dataLen >= HeaderLen + PacketLen(L + 1))
      BY <2>0, <3>3 DEF Incomplete, Complete
    <3>5. HeaderLen + PacketLen(L + 1) > BufferSize
      BY <1>t, <1>s, <2>0, <3>3, <3>4 DEF dataLen
    <3> QED
      BY <2>0, <3>2, <3>5 DEF ErrorOnlyTooBig, PacketLen
  <2> QED
    BY <2>1, <2>2, <2>3 DEF IInv
<1> QED
  BY <1>1, <1>2, <1>3, <1>4, <1>5, <1>6 DEF Next, Parse

\* UserOnTcpConnectionRead passes on every packet whole and in order, keeps
\* room to read, and gives the connection up only for a frame that does not
\* fit, whatever the reads are.
THEOREM FramingSafety ==
  Spec => [](TypeOK /\ PacketsIntact /\ FrameAligned /\ RoomToRead /\ ErrorOnlyTooBig)
<1>1. Init => IInv
  <2> SUFFICES ASSUME Init PROVE IInv
    OBVIOUS
  <2>1. Frames + 1 \in 1 .. Frames + 1 /\ 1 \in 1 .. Frames + 1
    OBVIOUS
  <2>2. Frames * (HeaderLen + MaxPacket) \in Nat
    OBVIOUS
  <2>3. 0 \in Positions /\ \A k \in 1 .. Frames + 1 : start[k] \in Nat
    BY <2>2 DEF Init, Positions
  <2>4. TypeOK
    <3>1. buffer \in [0 .. BufferSize - 1 -> Positions]
      BY <2>3 DEF Init
    <3>2. packets \in Seq(Seq(Positions))
      BY DEF Init
    <3>3. bufferDataLen \in 0 .. BufferSize /\ frameStart \in 0 .. BufferSize
      BY DEF Init
    <3> QED
      BY <2>3, <3>1, <3>2, <3>3 DEF Init, TypeOK
  <2>5. StreamInv
    BY <2>1, <2>3 DEF Init, StreamInv, StreamLen
  <2>6. PacketsIntact /\ FrameAligned /\ RoomToRead /\ ErrorOnlyTooBig
    BY DEF Init, PacketsIntact, FrameAligned, dataLen, RoomToRead, ErrorOnlyTooBig, IsStream
  <2> QED
    BY <2>4, <2>5, <2>6 DEF IInv
<1>2. IInv => TypeOK /\ PacketsIntact /\ FrameAligned /\ RoomToRead /\ ErrorOnlyTooBig
  BY DEF IInv
<1> QED
  BY <1>1, <1>2, InvStep, PTL DEF Spec

=============================================================================
