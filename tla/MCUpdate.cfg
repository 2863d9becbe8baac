SPECIFICATION UpdateSpec
CONSTANTS
  AddrSpace = 64
  FlashBase = 8
  PageSize = 8
  BootPages = 1
  Pages = 5
  TransferSize = 16
  Gd32 = FALSE
  Tags <- MCTags
  Blank = Blank
  BootByte = BootByte
  Old = Old
  Torn = Torn
  SafeWrite = FALSE
  UploadEnabled = FALSE
  Downloads <- MCDownloads
  Uploads = {}
  PayloadAddr = {0, 16, 32}
  NoTag = NoTag
  NoReply = NoReply
  WordSize = 2
  HeaderOf <- HashedHeaders
  SizeLimit = 30
  NoHashSize = 29
  NoHashSum = NoHashSum
  BlankSum = BlankSum
  Plan <- MCPlan
  NewHeader = "H"
  MaxFaults = 3
INVARIANTS
  UpdateTypeOK
  ConfirmedBlocksStay
  NoMixtureRuns
CHECK_DEADLOCK FALSE
PROPERTIES
  NewFirmwareRuns
