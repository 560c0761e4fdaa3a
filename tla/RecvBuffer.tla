----------------------------- MODULE RecvBuffer -----------------------------
(***************************************************************************)
(* The receiving side of a PacketSession: the RecvBuffer that WSARecv      *)
(* fills, and PacketSession::OnRecv that cuts packets out of it.  There is *)
(* one WSARecv at a time, so ProcessRecv runs alone; its calls are the     *)
(* steps of this module.                                                   *)
(*                                                                         *)
(* A byte is its offset in the stream the peer sends.  A packet starts     *)
(* with a header that holds its size, so a layout, which gives the size in *)
(* the header at each offset, also says where the packets of a stream are. *)
(***************************************************************************)
EXTENDS Integers

CONSTANTS
  BufferSize,     \* Session::BUFFER_SIZE, 64 KB
  BufferCount,    \* RecvBuffer::BUFFER_COUNT, 10
  HeaderSize,     \* sizeof(PacketHeader), 4
  MaxPacketSize,  \* the largest uint16 in a header
  MaxBytes,       \* bound: bytes the peer sends
  Layouts         \* layouts of the stream

\* A header's size counts the header, as every MakeSendBuffer writes it.
ASSUME RecvBufferAssumption ==
  /\ {BufferSize, BufferCount, HeaderSize, MaxPacketSize} \subseteq Nat
  /\ 0 < HeaderSize /\ HeaderSize <= MaxPacketSize /\ MaxPacketSize <= BufferSize
  /\ BufferCount >= 3
  /\ MaxBytes \in Nat
  /\ Layouts \subseteq [0 .. MaxBytes -> HeaderSize .. MaxPacketSize]

VARIABLES
  readPos,     \* _readPos
  writePos,    \* _writePos
  buffer,      \* _buffer: the byte at each place, or Junk
  pc,          \* the next call of ProcessRecv, see Pcs
  numOfBytes,  \* its parameter: what WSARecv received
  processLen,  \* the local of PacketSession::OnRecv
  layout,      \* the peer's stream
  arrived,     \* bytes of the stream that WSARecv has written
  delivered    \* bytes of the stream that OnRecvPacket was given

positions == <<readPos, writePos>>
vars == <<positions, buffer, pc, numOfBytes, processLen, layout, arrived, delivered>>

Pcs == { "recv",          \* RegisterRecv, and waiting for the completion
         "onwrite",       \* RecvBuffer::OnWrite
         "onrecv",        \* the loop of PacketSession::OnRecv
         "onread",        \* RecvBuffer::OnRead
         "clean",         \* RecvBuffer::Clean
         "disconnected" } \* Disconnect was called

Junk == -1

Capacity == BufferSize * BufferCount

DataSize == writePos - readPos

FreeSize == Capacity - writePos

-----------------------------------------------------------------------------
Init ==
  /\ readPos = 0 /\ writePos = 0
  /\ buffer = [i \in 0 .. Capacity - 1 |-> Junk]
  /\ pc = "recv"
  /\ numOfBytes = 0
  /\ processLen = 0
  /\ layout \in Layouts
  /\ arrived = 0
  /\ delivered = 0

\* WSARecv puts n bytes at WritePos(), at most the FreeSize() it was offered: at
\* least one, as there is always room (RoomToReceive) and a peer that closes only
\* ends the stream.
Receive(n) ==
  /\ pc = "recv"
  /\ n <= FreeSize /\ arrived + n <= MaxBytes
  /\ buffer' = [i \in 0 .. Capacity - 1 |->
                  IF i \in writePos .. writePos + n - 1
                    THEN arrived + (i - writePos) ELSE buffer[i]]
  /\ arrived' = arrived + n
  /\ numOfBytes' = n
  /\ pc' = "onwrite"
  /\ UNCHANGED <<positions, processLen, layout, delivered>>

OnWrite ==
  /\ pc = "onwrite"
  /\ \/ numOfBytes > FreeSize /\ pc' = "disconnected" /\ UNCHANGED writePos
     \/ /\ numOfBytes <= FreeSize
        /\ writePos' = writePos + numOfBytes
        /\ pc' = "onrecv"
  /\ processLen' = 0
  /\ UNCHANGED <<readPos, buffer, numOfBytes, layout, arrived, delivered>>

-----------------------------------------------------------------------------
(* PacketSession::OnRecv *)

\* The size in the header at a byte of the buffer.
SizeAt(place) == layout[buffer[place]]

Here == readPos + processLen

\* Fault: a packet is taken as soon as its header is there.
WholeHeader == DataSize - processLen >= HeaderSize

Whole ==
  /\ DataSize - processLen >= HeaderSize
  /\ DataSize - processLen >= SizeAt(Here)

\* Fault: one packet for each completion.
OnRecvPacketOnce ==
  /\ pc = "onrecv"
  /\ Whole
  /\ delivered' = delivered + SizeAt(Here)
  /\ processLen' = processLen + SizeAt(Here)
  /\ pc' = "onread"
  /\ UNCHANGED <<positions, buffer, numOfBytes, layout, arrived>>

OnRecvPacket ==
  /\ pc = "onrecv"
  /\ Whole
  /\ delivered' = delivered + SizeAt(Here)
  /\ processLen' = processLen + SizeAt(Here)
  /\ UNCHANGED <<positions, buffer, pc, numOfBytes, layout, arrived>>

OnRecvReturns ==
  /\ pc = "onrecv"
  /\ ~ Whole
  /\ pc' = "onread"
  /\ UNCHANGED <<positions, buffer, numOfBytes, processLen, layout, arrived, delivered>>

-----------------------------------------------------------------------------
OnRead ==
  /\ pc = "onread"
  /\ \/ processLen > DataSize /\ pc' = "disconnected" /\ UNCHANGED readPos
     \/ processLen <= DataSize /\ readPos' = readPos + processLen /\ pc' = "clean"
  /\ UNCHANGED <<writePos, buffer, numOfBytes, processLen, layout, arrived, delivered>>

\* What memcpy makes of _buffer: it moves the data to the start, or leaves
\* anything there if the regions overlap.
Moved ==
  {[i \in 0 .. Capacity - 1 |->
      IF i >= DataSize THEN buffer[i]
      ELSE IF junk /\ readPos < DataSize THEN Junk
      ELSE buffer[readPos + i]] : junk \in BOOLEAN}

\* Faults: only one position is reset; the data moves when nothing is free; the
\* positions move without the data.
CleanWritePos ==
  /\ pc = "clean"
  /\ DataSize = 0
  /\ writePos' = 0
  /\ pc' = "recv"
  /\ UNCHANGED <<readPos, buffer, numOfBytes, processLen, layout, arrived, delivered>>

CleanWhenFull ==
  /\ pc = "clean"
  /\ \/ DataSize = 0 /\ readPos' = 0 /\ writePos' = 0 /\ UNCHANGED buffer
     \/ DataSize # 0 /\ FreeSize = 0 /\ readPos' = 0 /\ writePos' = DataSize /\ buffer' \in Moved
     \/ DataSize # 0 /\ FreeSize # 0 /\ UNCHANGED <<positions, buffer>>
  /\ pc' = "recv"
  /\ UNCHANGED <<numOfBytes, processLen, layout, arrived, delivered>>

CleanUnmoved ==
  /\ pc = "clean"
  /\ readPos' = 0
  /\ writePos' = DataSize
  /\ pc' = "recv"
  /\ UNCHANGED <<buffer, numOfBytes, processLen, layout, arrived, delivered>>

\* Clean: back to the start if there is no data, or if less than one BufferSize
\* is free.
Clean ==
  /\ pc = "clean"
  /\ \/ /\ DataSize = 0
        /\ readPos' = 0 /\ writePos' = 0
        /\ UNCHANGED buffer
     \/ /\ DataSize # 0 /\ FreeSize < BufferSize
        /\ readPos' = 0 /\ writePos' = DataSize
        /\ buffer' \in Moved
     \/ /\ DataSize # 0 /\ FreeSize >= BufferSize
        /\ UNCHANGED <<positions, buffer>>
  /\ pc' = "recv"
  /\ UNCHANGED <<numOfBytes, processLen, layout, arrived, delivered>>

-----------------------------------------------------------------------------
ProcessRecv ==
  \/ OnWrite \/ OnRecvPacket \/ OnRecvReturns \/ OnRead \/ Clean

Next ==
  \/ \E n \in 1 .. MaxBytes : Receive(n)
  \/ ProcessRecv

SafetySpec == Init /\ [][Next]_vars

-----------------------------------------------------------------------------
(* Properties. *)

\* The type of every variable; the positions stay inside _buffer.
TypeOK ==
  /\ 0 <= readPos /\ readPos <= writePos /\ writePos <= Capacity
  /\ readPos \in Int /\ writePos \in Int
  /\ buffer \in [0 .. Capacity - 1 -> Int]
  /\ pc \in Pcs
  /\ numOfBytes \in 0 .. MaxBytes
  /\ processLen \in 0 .. Capacity
  /\ layout \in Layouts
  /\ arrived \in 0 .. MaxBytes
  /\ delivered \in Nat

\* WSARecv is always offered at least one BufferSize, and neither OnWrite nor
\* OnRead ever refuses: receiving alone never disconnects a session.
RoomToReceive ==
  /\ pc # "disconnected"
  /\ pc = "recv" => FreeSize >= BufferSize

\* What lies between _readPos and _writePos is the end of the stream that has
\* arrived, in order: Clean loses and damages nothing.
DataIsStream ==
  pc # "onwrite" =>
    \A i \in readPos .. writePos - 1 : buffer[i] = arrived - (writePos - i)

\* OnRecvPacket is given exactly the next packet of the stream.
DeliversNextPacket ==
  [][ OnRecvPacket =>
        /\ delivered' = delivered + layout[delivered]
        /\ \A i \in 0 .. layout[delivered] - 1 : buffer[Here + i] = delivered + i ]_vars

\* No whole packet is left in the buffer when the session waits for more bytes.
NoPacketWaits ==
  pc = "recv" => delivered \in 0 .. arrived /\ arrived - delivered < layout[delivered]
=============================================================================
