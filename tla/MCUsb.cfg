SPECIFICATION Spec
CONSTANTS
  PacketSize = 64
  BufferSize = 192
  FlashKb = 64
  PageKb = 1
  Uploadable = {2}
  Requests <- MCRequests
INVARIANTS
  TypeOK
  ReadIsExact
  StallMeansUnsupported
  DispatchedOnce
  CallbackAfterReply
  AddressAgrees
PROPERTIES
  TransferEnds
