SPECIFICATION MaskedSpec
CONSTANTS
    Size = 4
    Byte = {0, 1}
    MaxPut = 3
    MaxGet = 3
INVARIANTS RingTypeOK CopiesIntoFreeSlots ReadsPublishedBytes CallsAreComplete
PROPERTY ImplementsFifo
