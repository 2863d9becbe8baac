SPECIFICATION ServedSpec
CONSTANTS
  AddrSpace = 32
  FlashBase = 4
  PageSize = 2
  BootPages = 2
  Pages = 6
  TransferSize = 8
  Gd32 = FALSE
  Tags <- MCTags
  Blank = Blank
  BootByte = BootByte
  Old = Old
  Torn = Torn
  SafeWrite = TRUE
  UploadEnabled = TRUE
  Downloads <- StDownloads
  Uploads = {0, 2}
  PayloadAddr <- StAddr
  NoTag = NoTag
  NoReply = NoReply
INVARIANTS
  OldNeverWithNew
PROPERTIES
  ImplementsDeferred
CHECK_DEADLOCK FALSE
