----------------------------- MODULE RpcFraming -----------------------------
(***************************************************************************)
(* The messages of the registration server: X2RpcConnection cuts the bytes *)
(* of a TCP connection into frames, each a length of HeaderLen bytes and a *)
(* packet of that length, in a buffer of fixed size that                   *)
(* X2TcpConnectionHandler fills with reads of any size.                    *)
(*                                                                         *)
(* A byte is its position in the stream, so that a byte that is lost,      *)
(* moved or read twice shows.  Frame k of the stream takes the positions   *)
(* from start[k] up to start[k + 1].  One turn of the parsing loop is one  *)
(* action.                                                                 *)
(***************************************************************************)
EXTENDS Integers, Sequences

CONSTANTS
  HeaderLen,   \* 4
  BufferSize,  \* bufferSize, 65535 for X2NetTcpClient
  Frames,      \* bound: frames in the stream
  MaxPacket    \* bound: length of a packet

ASSUME RpcFramingAssumption ==
  /\ HeaderLen \in Nat \ {0}
  /\ BufferSize \in Nat /\ BufferSize >= HeaderLen
  /\ Frames \in Nat /\ MaxPacket \in Nat

VARIABLES
  start,          \* where the frames of the stream begin
  pos,            \* bytes of the stream that were read
  buffer, bufferDataLen, frameStart,
  parsing,        \* inside UserOnTcpConnectionRead
  closed,
  packets         \* the packet of each frame that was parsed; an empty one
                  \* is not passed to the listener

vars == <<start, pos, buffer, bufferDataLen, frameStart, parsing, closed, packets>>

StreamLen == start[Frames + 1]

Positions == 0 .. Frames * (HeaderLen + MaxPacket)

PacketLen(k) == start[k + 1] - start[k] - HeaderLen

\* Frames follow each other without a gap.
IsStream(s) ==
  /\ s[1] = 0
  /\ \A k \in 1 .. Frames : s[k + 1] - s[k] - HeaderLen \in 0 .. MaxPacket
  /\ \A j, k \in 1 .. Frames + 1 : j < k => s[j] + HeaderLen <= s[k]

TypeOK ==
  /\ start \in [1 .. Frames + 1 -> Positions]
  /\ pos \in Positions
  /\ buffer \in [0 .. BufferSize - 1 -> Positions]
  /\ bufferDataLen \in 0 .. BufferSize
  /\ frameStart \in 0 .. BufferSize
  /\ parsing \in BOOLEAN
  /\ closed \in BOOLEAN
  /\ packets \in Seq(Seq(Positions))

Init ==
  /\ start \in [1 .. Frames + 1 -> Positions]
  /\ IsStream(start)
  /\ pos = 0
  /\ buffer = [i \in 0 .. BufferSize - 1 |-> 0]
  /\ bufferDataLen = 0
  /\ frameStart = 0
  /\ parsing = FALSE
  /\ closed = FALSE
  /\ packets = <<>>

\* Mutant: the whole buffer is offered, behind the data it holds.
ReadWholeBuffer(n) ==
  /\ ~parsing /\ ~closed
  /\ pos + n <= StreamLen
  /\ buffer' = [i \in 0 .. BufferSize - 1 |->
                  IF i >= bufferDataLen /\ i < bufferDataLen + n
                  THEN pos + (i - bufferDataLen) ELSE buffer[i]]
  /\ bufferDataLen' = bufferDataLen + n
  /\ pos' = pos + n
  /\ parsing' = TRUE
  /\ UNCHANGED <<start, frameStart, closed, packets>>

\* OnUvReadAlloc offers what is left of the buffer, OnUvRead is told of n
\* bytes in it.
Read(n) ==
  /\ ~parsing /\ ~closed
  /\ n <= BufferSize - bufferDataLen
  /\ pos + n <= StreamLen
  /\ buffer' = [i \in 0 .. BufferSize - 1 |->
                  IF i >= bufferDataLen /\ i < bufferDataLen + n
                  THEN pos + (i - bufferDataLen) ELSE buffer[i]]
  /\ bufferDataLen' = bufferDataLen + n
  /\ pos' = pos + n
  /\ parsing' = TRUE
  /\ UNCHANGED <<start, frameStart, closed, packets>>

dataLen == bufferDataLen - frameStart

\* The bytes from frameStart on begin with the length of frame k.
HeaderOf(k) ==
  /\ dataLen >= HeaderLen
  /\ \A j \in 0 .. HeaderLen - 1 : buffer[frameStart + j] = start[k] + j

\* The frame at frameStart is complete.  (The length read is that of the
\* frame whose header the bytes are; FrameAligned says there is one.)
Complete(k) == HeaderOf(k) /\ dataLen >= HeaderLen + PacketLen(k)

Incomplete == ~ \E k \in 1 .. Frames : Complete(k)

\* Mutant: a frame that ends the buffer is left behind like any other.
AfterFrameNoEmptying(end) ==
  /\ frameStart' = end
  /\ UNCHANGED bufferDataLen

\* Mutant: the buffer is emptied when at most a byte is left behind the frame.
AfterFrameEmptiedEarly(end) ==
  IF end >= bufferDataLen - 1
  THEN frameStart' = 0 /\ bufferDataLen' = 0
  ELSE frameStart' = end /\ UNCHANGED bufferDataLen

\* A frame that ends where the buffer does empties it.
AfterFrame(end) ==
  IF end = BufferSize
  THEN frameStart' = 0 /\ bufferDataLen' = 0
  ELSE frameStart' = end /\ UNCHANGED bufferDataLen

\* Mutant: the packet is taken from where the length begins.
PacketFromHeader(k) ==
  [j \in 1 .. PacketLen(k) |-> buffer[frameStart + j - 1]]

PacketAt(k) ==
  [j \in 1 .. PacketLen(k) |-> buffer[frameStart + HeaderLen + j - 1]]

\* A complete frame: the listener is given the packet; the loop goes on when
\* there is more data.
ParseFrame(k) ==
  /\ parsing /\ ~closed
  /\ Complete(k)
  /\ packets' = Append(packets, PacketAt(k))
  /\ AfterFrame(frameStart + HeaderLen + PacketLen(k))
  /\ parsing' = (bufferDataLen' > frameStart')
  /\ UNCHANGED <<start, pos, buffer, closed>>

\* An incomplete frame, and the buffer is not full.
ParseWait ==
  /\ parsing /\ ~closed
  /\ Incomplete
  /\ bufferDataLen # BufferSize
  /\ parsing' = FALSE
  /\ UNCHANGED <<start, pos, buffer, bufferDataLen, frameStart, closed, packets>>

\* Mutant: the data is moved without its length.
ParseMoveKeepsLen ==
  /\ parsing /\ ~closed
  /\ Incomplete
  /\ bufferDataLen = BufferSize /\ frameStart # 0
  /\ buffer' = [i \in 0 .. BufferSize - 1 |->
                  IF i < BufferSize - frameStart THEN buffer[i + frameStart] ELSE buffer[i]]
  /\ frameStart' = 0
  /\ parsing' = FALSE
  /\ UNCHANGED <<start, pos, bufferDataLen, closed, packets>>

\* An incomplete frame in a full buffer is moved to the beginning.
ParseMove ==
  /\ parsing /\ ~closed
  /\ Incomplete
  /\ bufferDataLen = BufferSize /\ frameStart # 0
  /\ buffer' = [i \in 0 .. BufferSize - 1 |->
                  IF i < BufferSize - frameStart THEN buffer[i + frameStart] ELSE buffer[i]]
  /\ bufferDataLen' = BufferSize - frameStart
  /\ frameStart' = 0
  /\ parsing' = FALSE
  /\ UNCHANGED <<start, pos, closed, packets>>

\* Mutant: any frame that meets the end of the buffer is too big.
ParseTooBigAnywhere ==
  /\ parsing /\ ~closed
  /\ Incomplete
  /\ bufferDataLen = BufferSize
  /\ closed' = TRUE
  /\ parsing' = FALSE
  /\ UNCHANGED <<start, pos, buffer, bufferDataLen, frameStart, packets>>

\* An incomplete frame that has the whole buffer: ErrorReceiving.
ParseTooBig ==
  /\ parsing /\ ~closed
  /\ Incomplete
  /\ bufferDataLen = BufferSize /\ frameStart = 0
  /\ closed' = TRUE
  /\ parsing' = FALSE
  /\ UNCHANGED <<start, pos, buffer, bufferDataLen, frameStart, packets>>

Parse ==
  \/ \E k \in 1 .. Frames : ParseFrame(k)
  \/ ParseWait \/ ParseMove \/ ParseTooBig

Next == (\E n \in 1 .. BufferSize : Read(n)) \/ Parse

Spec == Init /\ [][Next]_vars

\* The parsing loop runs on and what was sent arrives.
FairSpec == Spec /\ WF_vars(Next)

-----------------------------------------------------------------------------
\* What the listener is given are the packets of the stream, whole and in
\* order, however the reads cut the lengths and the packets.
PacketsIntact ==
  \A k \in 1 .. Len(packets) :
    k <= Frames /\ packets[k] = [j \in 1 .. PacketLen(k) |-> start[k] + HeaderLen + j - 1]

\* The unparsed part of the buffer is the stream from the first frame that
\* was not parsed to the last byte that was read.
FrameAligned ==
  ~closed =>
    /\ frameStart <= bufferDataLen
    /\ Len(packets) <= Frames
    /\ start[Len(packets) + 1] = pos - dataLen
    /\ \A i \in frameStart .. bufferDataLen - 1 : buffer[i] = pos - bufferDataLen + i

\* Between two reads there is room for at least one more byte: OnUvReadAlloc
\* never has an empty buffer to offer, which libuv would report as an error.
RoomToRead == ~parsing /\ ~closed => bufferDataLen < BufferSize

\* The connection is given up only for a frame that does not fit the buffer.
ErrorOnlyTooBig ==
  closed => /\ Len(packets) < Frames
            /\ HeaderLen + PacketLen(Len(packets) + 1) > BufferSize

\* If every frame of the stream fits the buffer, every frame is parsed.
AllParsed ==
  (\A k \in 1 .. Frames : HeaderLen + PacketLen(k) <= BufferSize)
    ~> (Len(packets) = Frames)

=============================================================================
