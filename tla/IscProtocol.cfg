CONSTANTS
    IdSpace = 3
    MaxFrameData = 2
    HeaderSize = 1
    MaxMessageSize = 5
    MaxSentSize = 7
    MaxMessages = 4
    MaxGarbage = 1
    MaxBurst = 1
SPECIFICATION IscSpec
INVARIANTS IscTypeOK ExactlyIntactMessages
CHECK_DEADLOCK FALSE
