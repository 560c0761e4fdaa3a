CONSTANTS
  BufferSize = 4
  BufferCount = 3
  HeaderSize = 2
  MaxPacketSize = 4
  MaxBytes = 24
  Layouts <- MixedLayouts
SPECIFICATION SafetySpec
INVARIANTS TypeOK RoomToReceive DataIsStream NoPacketWaits
PROPERTY DeliversNextPacket
CHECK_DEADLOCK FALSE
