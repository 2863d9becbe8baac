SPECIFICATION ServedSpec
CONSTANTS
  AddrSpace = 32
  FlashBase = 8
  PageSize = 4
  BootPages = 1
  Pages = 4
  TransferSize = 8
  Gd32 = TRUE
  Tags <- MCTags
  Blank = Blank
  BootByte = BootByte
  Old = Old
  Torn = Torn
  SafeWrite = FALSE
  UploadEnabled = FALSE
  Downloads <- GdDownloads
  Uploads = {0, 2}
  PayloadAddr <- GdAddr
  NoTag = NoTag
  NoReply = NoReply
INVARIANT OnlyValidAddresses
CHECK_DEADLOCK FALSE
