SPECIFICATION Spec
CONSTANTS
    Requests <- MCRequests
    Eager = {}
    ResetAnywhere = TRUE
    MaxPacket = 64
    MemorySize = 512
PROPERTY
    ResetRestores
