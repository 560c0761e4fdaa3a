-------------------------- MODULE RecvBufferProofs --------------------------
(***************************************************************************)
(* Proofs about RecvBuffer, for any BufferSize, any BufferCount from 3 on, *)
(* any packets no larger than a BufferSize, and streams of any length.     *)
(***************************************************************************)
EXTENDS RecvBuffer, TLAPS

\* Where the bytes that have arrived end, whether or not OnWrite knows.
End == IF pc = "onwrite" THEN writePos + numOfBytes ELSE writePos

\* Bytes of the data that OnRecv has handed over and OnRead has not dropped.
Ahead == IF pc \in {"onrecv", "onread"} THEN processLen ELSE 0

\* The bytes up to End are the last that arrived ...
Stream == \A i \in readPos .. End - 1 : buffer[i] = arrived - (End - i)

\* ... the packets delivered so far end inside them ...
Cursor ==
  /\ End <= Capacity
  /\ End - readPos <= arrived
  /\ processLen <= DataSize \/ pc \notin {"onrecv", "onread"}
  /\ delivered = arrived - (End - readPos) + Ahead

\* ... and once the loop of OnRecv has ended, less than a packet is left.
Remainder ==
  /\ pc = "onread" => DataSize - processLen < layout[delivered]
  /\ pc \in {"clean", "recv"} => DataSize < layout[delivered]

RecvInv == TypeOK /\ RoomToReceive /\ Stream /\ Cursor /\ Remainder

-----------------------------------------------------------------------------
\* What the assumptions say in linear arithmetic.
LEMMA Sizes ==
  /\ BufferSize \in Nat /\ MaxPacketSize \in Nat /\ HeaderSize \in Nat /\ MaxBytes \in Nat
  /\ 0 < HeaderSize /\ HeaderSize <= MaxPacketSize /\ MaxPacketSize <= BufferSize
  /\ Capacity \in Nat /\ Capacity >= BufferSize + BufferSize + BufferSize
<1>1. /\ BufferSize \in Nat /\ BufferCount \in Nat /\ BufferCount >= 3
      /\ MaxPacketSize \in Nat /\ HeaderSize \in Nat /\ MaxBytes \in Nat
      /\ 0 < HeaderSize /\ HeaderSize <= MaxPacketSize /\ MaxPacketSize <= BufferSize
  BY RecvBufferAssumption DEF RecvBufferAssumption
<1>2. Capacity = BufferSize * (BufferCount - 3) + (BufferSize + BufferSize + BufferSize)
  BY <1>1 DEF Capacity
<1>3. BufferSize * (BufferCount - 3) \in Nat
  BY <1>1
<1> QED BY <1>1, <1>2, <1>3

\* Every header holds the size of a packet.
LEMMA LayoutSize ==
  ASSUME TypeOK, NEW k \in 0 .. MaxBytes
  PROVE  layout[k] \in Int /\ HeaderSize <= layout[k] /\ layout[k] <= MaxPacketSize
<1>1. layout \in [0 .. MaxBytes -> HeaderSize .. MaxPacketSize]
  BY RecvBufferAssumption DEF RecvBufferAssumption, TypeOK
<1>2. layout[k] \in HeaderSize .. MaxPacketSize
  BY <1>1
<1> QED BY <1>2, Sizes

\* The header that OnRecv looks at is the one of the next packet.
LEMMA HeaderIsNext ==
  ASSUME RecvInv, pc = "onrecv", DataSize - processLen > 0
  PROVE  buffer[Here] = delivered /\ SizeAt(Here) = layout[delivered]
<1>1. Here \in readPos .. End - 1
  BY DEF RecvInv, TypeOK, Here, End, DataSize
<1>2. buffer[Here] = arrived - (End - Here)
  BY <1>1 DEF RecvInv, Stream
<1>3. arrived - (End - Here) = delivered
  BY DEF RecvInv, TypeOK, Cursor, Here, End, Ahead
<1> QED BY <1>2, <1>3 DEF SizeAt

\* RecvInv holds of an empty buffer.
LEMMA InitRecvInv == Init => RecvInv
<1> SUFFICES ASSUME Init PROVE RecvInv
  OBVIOUS
<1>1. TypeOK
  BY Sizes DEF Init, TypeOK, Pcs, Junk
<1>2. RoomToReceive
  BY Sizes DEF Init, RoomToReceive, FreeSize
<1>3. Stream /\ Cursor
  BY Sizes DEF Init, Stream, Cursor, End, Ahead
<1>4. layout[0] >= HeaderSize /\ layout[0] \in Int
  BY <1>1, LayoutSize, Sizes
<1>5. Remainder
  BY <1>4, Sizes DEF Init, Remainder, DataSize
<1> QED BY <1>1, <1>2, <1>3, <1>5 DEF RecvInv

\* Every call of the receive path keeps RecvInv.
LEMMA NextRecvInv == RecvInv /\ [Next]_vars => RecvInv'
<1> SUFFICES ASSUME RecvInv, [Next]_vars PROVE RecvInv'
  OBVIOUS
<1> USE Sizes
<1>0. TypeOK /\ RoomToReceive /\ Stream /\ Cursor /\ Remainder
  BY DEF RecvInv
<1>1. ASSUME NEW n \in 1 .. MaxBytes, Receive(n) PROVE RecvInv'
  <2>1. /\ pc = "recv" /\ pc' = "onwrite" /\ numOfBytes' = n /\ arrived' = arrived + n
        /\ n <= Capacity - writePos /\ arrived + n <= MaxBytes
        /\ readPos' = readPos /\ writePos' = writePos /\ delivered' = delivered
        /\ processLen' = processLen /\ layout' = layout
        /\ 0 <= readPos /\ readPos <= writePos /\ writePos <= Capacity
        /\ readPos \in Int /\ writePos \in Int /\ arrived \in Nat
    BY <1>0, <1>1 DEF Receive, TypeOK, FreeSize, positions
  <2>2. buffer' = [i \in 0 .. Capacity - 1 |->
                     IF i \in writePos .. writePos + n - 1
                       THEN arrived + (i - writePos) ELSE buffer[i]]
    BY <1>1 DEF Receive
  <2>3. TypeOK'
    <3>1. buffer' \in [0 .. Capacity - 1 -> Int]
      BY <1>0, <2>1, <2>2 DEF TypeOK
    <3> QED BY <1>0, <2>1, <3>1 DEF TypeOK, Pcs
  <2>4. End = writePos /\ End' = writePos + n
    BY <2>1 DEF End
  <2>5. Stream'
    <3>1. ASSUME NEW i \in readPos .. writePos + n - 1
          PROVE  buffer'[i] = arrived + n - (writePos + n - i)
      <4>1. i \in 0 .. Capacity - 1
        BY <2>1
      <4>2. CASE i \in writePos .. writePos + n - 1
        BY <2>1, <2>2, <4>1, <4>2
      <4>3. CASE i \in readPos .. writePos - 1
        BY <1>0, <2>1, <2>2, <2>4, <4>1, <4>3 DEF Stream
      <4> QED BY <2>1, <4>2, <4>3
    <3> QED BY <2>1, <2>4, <3>1 DEF Stream
  <2>6. Cursor'
    BY <1>0, <2>1, <2>4 DEF Cursor, Ahead, DataSize, TypeOK
  <2> QED BY <2>1, <2>3, <2>5, <2>6 DEF RecvInv, RoomToReceive, Remainder
<1>2. ASSUME OnWrite PROVE RecvInv'
  <2>1. /\ pc = "onwrite" /\ numOfBytes <= Capacity - writePos /\ numOfBytes \in Nat
    BY <1>0, <1>2 DEF OnWrite, TypeOK, Cursor, End
  <2>2. /\ writePos' = writePos + numOfBytes /\ pc' = "onrecv" /\ processLen' = 0
        /\ UNCHANGED <<readPos, buffer, numOfBytes, layout, arrived, delivered>>
    BY <1>0, <1>2, <2>1 DEF OnWrite, FreeSize, TypeOK
  <2>3. TypeOK'
    BY <1>0, <2>1, <2>2 DEF TypeOK, Pcs
  <2>4. End' = End
    BY <2>1, <2>2 DEF End
  <2>5. Stream'
    BY <1>0, <2>2, <2>4 DEF Stream
  <2>6. Cursor'
    BY <1>0, <2>1, <2>2, <2>4 DEF Cursor, Ahead, DataSize, TypeOK, End
  <2> QED BY <2>2, <2>3, <2>5, <2>6 DEF RecvInv, RoomToReceive, Remainder
<1>3. ASSUME OnRecvPacket PROVE RecvInv'
  <2>1. pc = "onrecv" /\ DataSize - processLen >= HeaderSize
        /\ DataSize - processLen >= SizeAt(Here)
        /\ delivered' = delivered + SizeAt(Here) /\ processLen' = processLen + SizeAt(Here)
        /\ UNCHANGED <<readPos, writePos, buffer, pc, numOfBytes, layout, arrived>>
    BY <1>3 DEF OnRecvPacket, Whole, positions
  <2>2. SizeAt(Here) = layout[delivered]
    BY <1>0, <2>1, HeaderIsNext DEF RecvInv, DataSize, TypeOK
  <2>3. delivered \in 0 .. MaxBytes
    BY <1>0, <2>1 DEF TypeOK, Cursor, End, Ahead, DataSize
  <2>4. SizeAt(Here) \in Nat
    BY <1>0, <2>2, <2>3, LayoutSize
  <2>5. End' = End /\ DataSize' = DataSize
    BY <2>1 DEF End, DataSize
  <2>6. DataSize \in Int /\ DataSize <= Capacity
    BY <1>0 DEF TypeOK, DataSize
  <2>7. TypeOK'
    BY <1>0, <2>1, <2>4, <2>6 DEF TypeOK
  <2>8. Stream'
    BY <1>0, <2>1, <2>5 DEF Stream
  <2>9. Cursor'
    BY <1>0, <2>1, <2>4, <2>5, <2>6 DEF Cursor, Ahead, TypeOK, End
  <2> QED BY <2>1, <2>7, <2>8, <2>9 DEF RecvInv, RoomToReceive, Remainder
<1>4. ASSUME OnRecvReturns PROVE RecvInv'
  <2>1. pc = "onrecv" /\ ~ Whole /\ pc' = "onread"
        /\ UNCHANGED <<readPos, writePos, buffer, numOfBytes, processLen, layout, arrived, delivered>>
    BY <1>4 DEF OnRecvReturns, positions
  <2>2. delivered \in 0 .. MaxBytes
    BY <1>0, <2>1 DEF TypeOK, Cursor, End, Ahead, DataSize
  <2>3. HeaderSize <= layout[delivered] /\ layout[delivered] \in Int
    BY <1>0, <2>2, LayoutSize
  <2>4. DataSize - processLen < layout[delivered]
    <3>1. DataSize - processLen \in Int
      BY <1>0 DEF TypeOK, DataSize
    <3>2. CASE DataSize - processLen < HeaderSize
      BY <2>3, <3>1, <3>2
    <3>3. CASE DataSize - processLen >= HeaderSize
      <4>1. SizeAt(Here) = layout[delivered]
        BY <1>0, <2>1, <3>1, <3>3, HeaderIsNext DEF RecvInv
      <4> QED BY <2>1, <2>3, <3>1, <3>3, <4>1 DEF Whole
    <3> QED BY <3>1, <3>2, <3>3
  <2>5. TypeOK'
    BY <1>0, <2>1 DEF TypeOK, Pcs
  <2>6. Stream'
    BY <1>0, <2>1 DEF Stream, End
  <2>7. Cursor'
    BY <1>0, <2>1 DEF Cursor, End, Ahead, DataSize
  <2>8. Remainder'
    BY <2>1, <2>4 DEF Remainder, DataSize
  <2> QED BY <2>1, <2>5, <2>6, <2>7, <2>8 DEF RecvInv, RoomToReceive
<1>5. ASSUME OnRead PROVE RecvInv'
  <2>1. pc = "onread" /\ processLen <= DataSize
    BY <1>0, <1>5 DEF OnRead, Cursor
  <2>2. /\ readPos' = readPos + processLen /\ pc' = "clean"
        /\ UNCHANGED <<writePos, buffer, numOfBytes, processLen, layout, arrived, delivered>>
    BY <1>0, <1>5, <2>1 DEF OnRead, TypeOK, DataSize
  <2>3. TypeOK'
    BY <1>0, <2>1, <2>2 DEF TypeOK, Pcs, DataSize
  <2>4. End' = End
    BY <2>1, <2>2 DEF End
  <2>5. Stream'
    BY <1>0, <2>1, <2>2, <2>4 DEF Stream, TypeOK, End
  <2>6. Cursor'
    BY <1>0, <2>1, <2>2, <2>4 DEF Cursor, Ahead, DataSize, TypeOK, End
  <2>7. Remainder'
    BY <1>0, <2>1, <2>2 DEF Remainder, DataSize, TypeOK
  <2> QED BY <2>2, <2>3, <2>5, <2>6, <2>7 DEF RecvInv, RoomToReceive
<1>6. ASSUME Clean PROVE RecvInv'
  <2>1. pc = "clean" /\ pc' = "recv"
        /\ UNCHANGED <<numOfBytes, processLen, layout, arrived, delivered>>
    BY <1>6 DEF Clean
  <2>2. /\ readPos \in Nat /\ writePos \in Nat /\ readPos <= writePos /\ writePos <= Capacity
        /\ End = writePos /\ arrived \in 0 .. MaxBytes
        /\ writePos - readPos <= arrived /\ delivered = arrived - (writePos - readPos)
    BY <1>0, <2>1 DEF TypeOK, Cursor, End, Ahead
  <2>3. DataSize < MaxPacketSize
    <3>1. delivered \in 0 .. MaxBytes
      BY <2>2
    <3>2. layout[delivered] \in Int /\ layout[delivered] <= MaxPacketSize
      BY <1>0, <3>1, LayoutSize
    <3> QED BY <1>0, <2>1, <2>2, <3>2 DEF Remainder, DataSize
  <2>4. CASE DataSize = 0
    <3>1. readPos' = 0 /\ writePos' = 0 /\ buffer' = buffer
      BY <1>6, <2>4 DEF Clean
    <3>2. TypeOK' /\ RoomToReceive'
      BY <1>0, <2>1, <3>1 DEF TypeOK, Pcs, RoomToReceive, FreeSize
    <3>3. Stream' /\ Cursor' /\ Remainder'
      BY <1>0, <2>1, <2>2, <2>4, <3>1 DEF Stream, Cursor, Remainder, End, Ahead, DataSize
    <3> QED BY <3>2, <3>3 DEF RecvInv
  <2>5. CASE DataSize # 0 /\ FreeSize < BufferSize
    <3>0. ~ (FreeSize >= BufferSize)
      BY <2>2, <2>5 DEF FreeSize
    <3>1. PICK junk \in BOOLEAN :
            buffer' = [i \in 0 .. Capacity - 1 |->
                         IF i >= DataSize THEN buffer[i]
                         ELSE IF junk /\ readPos < DataSize THEN Junk
                         ELSE buffer[readPos + i]]
      BY <1>6, <2>5, <3>0 DEF Clean, Moved
    <3>2. readPos' = 0 /\ writePos' = DataSize
      BY <1>6, <2>5, <3>0 DEF Clean, Moved
    <3>3. readPos >= DataSize /\ DataSize \in Nat /\ DataSize <= BufferSize
      BY <2>2, <2>3, <2>5 DEF DataSize, FreeSize
    <3>4. buffer \in [0 .. Capacity - 1 -> Int]
      BY <1>0 DEF TypeOK
    <3>5. buffer' \in [0 .. Capacity - 1 -> Int]
      <4>1. ASSUME NEW i \in 0 .. Capacity - 1, ~ (i >= DataSize)
            PROVE  readPos + i \in 0 .. Capacity - 1
        BY <2>2, <4>1 DEF DataSize
      <4> QED BY <3>1, <3>3, <3>4, <4>1 DEF Junk
    <3>6. TypeOK'
      BY <1>0, <2>1, <3>2, <3>3, <3>5 DEF TypeOK, Pcs
    <3>7. RoomToReceive'
      BY <2>1, <3>2, <3>3 DEF RoomToReceive, FreeSize
    <3>8. Stream'
      <4>1. End' = DataSize
        BY <2>1, <3>2 DEF End
      <4>2. ASSUME NEW i \in 0 .. DataSize - 1
            PROVE  buffer'[i] = arrived - (DataSize - i)
        <5>1. i \in 0 .. Capacity - 1 /\ ~ (i >= DataSize) /\ ~ (readPos < DataSize)
              /\ readPos + i \in readPos .. End - 1
          BY <2>2, <3>3 DEF DataSize
        <5>2. buffer'[i] = buffer[readPos + i]
          BY <3>1, <5>1
        <5>3. buffer[readPos + i] = arrived - (End - (readPos + i))
          BY <1>0, <5>1 DEF Stream
        <5> QED BY <2>2, <5>2, <5>3 DEF DataSize
      <4> QED BY <2>1, <3>2, <4>1, <4>2 DEF Stream
    <3>9. Cursor' /\ Remainder'
      BY <1>0, <2>1, <2>2, <3>2, <3>3 DEF Cursor, Remainder, End, Ahead, DataSize
    <3> QED BY <3>6, <3>7, <3>8, <3>9 DEF RecvInv
  <2>6. CASE DataSize # 0 /\ FreeSize >= BufferSize
    <3>1. readPos' = readPos /\ writePos' = writePos /\ buffer' = buffer
      BY <1>6, <2>2, <2>6 DEF Clean, positions, FreeSize
    <3>2. TypeOK' /\ RoomToReceive'
      BY <1>0, <2>1, <2>6, <3>1 DEF TypeOK, Pcs, RoomToReceive, FreeSize
    <3>3. Stream' /\ Cursor' /\ Remainder'
      BY <1>0, <2>1, <3>1 DEF Stream, Cursor, Remainder, End, Ahead, DataSize
    <3> QED BY <3>2, <3>3 DEF RecvInv
  <2> QED BY <2>2, <2>4, <2>5, <2>6 DEF FreeSize
<1>7. ASSUME UNCHANGED vars PROVE RecvInv'
  BY <1>0, <1>7 DEF vars, positions, RecvInv, TypeOK, RoomToReceive, FreeSize,
     Stream, Cursor, Remainder, End, Ahead, DataSize
<1> QED
  BY <1>1, <1>2, <1>3, <1>4, <1>5, <1>6, <1>7 DEF Next, ProcessRecv

\* RecvInv holds in every state.
THEOREM Invariance == SafetySpec => []RecvInv
<1>1. Init => RecvInv
  BY InitRecvInv
<1>2. RecvInv /\ [Next]_vars => RecvInv'
  BY NextRecvInv
<1> QED BY <1>1, <1>2, PTL DEF SafetySpec

\* The positions stay inside _buffer, and every variable keeps its type.
THEOREM TypeCorrect == SafetySpec => []TypeOK
<1>1. RecvInv => TypeOK
  BY DEF RecvInv
<1> QED BY <1>1, Invariance, PTL

\* RegisterRecv always offers at least BufferSize bytes to WSARecv, and OnWrite
\* and OnRead never refuse.
THEOREM AlwaysRoom == SafetySpec => []RoomToReceive
<1>1. RecvInv => RoomToReceive
  BY DEF RecvInv
<1> QED BY <1>1, Invariance, PTL

\* Clean moves the data without damage: its memcpy never overlaps.
THEOREM DataIsIntact == SafetySpec => []DataIsStream
<1>1. RecvInv => DataIsStream
  BY DEF RecvInv, Stream, DataIsStream, End
<1> QED BY <1>1, Invariance, PTL

\* Each OnRecvPacket is given the next packet of the stream, whole.
THEOREM Framing == SafetySpec => DeliversNextPacket
<1>1. ASSUME RecvInv, OnRecvPacket
      PROVE  /\ delivered' = delivered + layout[delivered]
             /\ \A i \in 0 .. layout[delivered] - 1 : buffer[Here + i] = delivered + i
  <2>1. pc = "onrecv" /\ DataSize - processLen >= HeaderSize
        /\ DataSize - processLen >= SizeAt(Here) /\ delivered' = delivered + SizeAt(Here)
    BY <1>1 DEF OnRecvPacket, Whole
  <2>2. TypeOK /\ Stream /\ Cursor
    BY <1>1 DEF RecvInv
  <2>3. SizeAt(Here) = layout[delivered]
    BY <1>1, <2>1, <2>2, HeaderIsNext, Sizes DEF TypeOK, DataSize
  <2>4. delivered = arrived - (writePos - Here) /\ End = writePos
    BY <2>1, <2>2 DEF TypeOK, Cursor, End, Ahead, Here
  <2>5. delivered \in 0 .. MaxBytes
    BY <2>1, <2>2, Sizes DEF TypeOK, Cursor, End, Ahead, DataSize
  <2>6. layout[delivered] \in Int
    BY <2>2, <2>5, LayoutSize
  <2>7. ASSUME NEW i \in 0 .. layout[delivered] - 1 PROVE buffer[Here + i] = delivered + i
    <3>1. Here + i \in readPos .. End - 1
      BY <2>1, <2>2, <2>3, <2>4, <2>6 DEF TypeOK, Here, DataSize
    <3>2. buffer[Here + i] = arrived - (End - (Here + i))
      BY <2>2, <3>1 DEF Stream
    <3> QED BY <2>2, <2>4, <3>2 DEF TypeOK, Here
  <2> QED BY <2>1, <2>3, <2>7
<1> QED BY <1>1, Invariance, PTL DEF DeliversNextPacket

\* When the session waits for bytes, no whole packet is left in the buffer.
THEOREM NothingLeftBehind == SafetySpec => []NoPacketWaits
<1>1. ASSUME RecvInv PROVE NoPacketWaits
  BY <1>1, Sizes DEF RecvInv, TypeOK, Cursor, Remainder, NoPacketWaits, End, Ahead, DataSize
<1> QED BY <1>1, Invariance, PTL
=============================================================================
