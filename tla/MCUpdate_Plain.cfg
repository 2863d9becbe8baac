SPECIFICATION UpdateSpec
CONSTANTS
  AddrSpace = 64
  FlashBase = 8
  PageSize = 8
  BootPages = 1
  Pages = 5
  TransferSize = 16
  Gd32 = FALSE
  Tags <- MCTags
  Blank = Blank
  BootByte = BootByte
  Old = Old
  Torn = Torn
  SafeWrite = TRUE
  UploadEnabled = FALSE
  Downloads <- MCDownloads
  Uploads = {}
  PayloadAddr = {0, 16, 32}
  NoTag = NoTag
  NoReply = NoReply
  WordSize = 2
  HeaderOf <- PlainHeaders
  SizeLimit = 30
  NoHashSize = 29
  NoHashSum = NoHashSum
  BlankSum = BlankSum
  Plan <- MCPlan
  NewHeader = "H"
  MaxFaults = 3
INVARIANT PartialUpdateNeverRuns
CHECK_DEADLOCK FALSE
