SPECIFICATION ServedSpec
CONSTANTS
  AddrSpace = 32
  FlashBase = 8
  PageSize = 4
  BootPages = 1
  Pages = 4
  TransferSize = 8
  Gd32 = TRUE
  Tags <- MCTags
  Blank = Blank
  BootByte = BootByte
  Old = Old
  Torn = Torn
  SafeWrite = FALSE
  UploadEnabled = FALSE
  Downloads <- GdDownloads
  Uploads = {0, 2}
  PayloadAddr <- GdAddr
  NoTag = NoTag
  NoReply = NoReply
INVARIANTS
  TypeOK
  BootloaderIntact
  ManifestServesNothing
  ConfirmedBlockIsStored
  ConfirmedEraseIsBlank
PROPERTIES
  ImplementsDeferred
CHECK_DEADLOCK FALSE
