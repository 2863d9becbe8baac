SPECIFICATION Spec
CONSTANTS
    Requests <- MCRequests
    Eager = {"write"}
    ResetAnywhere = FALSE
    MaxPacket = 64
    MemorySize = 512
INVARIANTS
    EndpointTypeOK
    SetupKept
    ArmedForPhase
    ReplyIsOwn
    StallMeansRefused
    BuffersApart
PROPERTIES
    PatientHostIsServed
