SPECIFICATION Spec
CONSTANTS
    NumPackets = 3
    Size <- MCSize
    SendBufferSize = 2
    KernelBuffer = 2
PROPERTIES DelayedCloseCompletes
CHECK_DEADLOCK FALSE
