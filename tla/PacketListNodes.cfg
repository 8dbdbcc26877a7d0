SPECIFICATION ListSpec
CONSTANTS
  Byte = 2
  AdjLimit = 2
  Packets <- AnyPackets
  NumNodes = 4
  Now <- Times0to2
  MaxExecuted = 1
  NoPacket = NoPacket
INVARIANTS NoNodeLost
PROPERTIES ImplementsQueue
