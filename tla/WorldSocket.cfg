SPECIFICATION Spec
CONSTANTS
    NumPackets = 3
    Size <- MCSize
    SendBufferSize = 2
    KernelBuffer = 2
INVARIANT WireInOrder
PROPERTIES AcceptedPacketIsSent ClosedSocketIsErased
CHECK_DEADLOCK FALSE
