SPECIFICATION BootSpec
CONSTANTS
  AddrSpace = 32
  FlashBase = 2
  PageSize = 4
  BootPages = 1
  Pages = 3
  TransferSize = 8
  Gd32 = TRUE
  Tags <- MCTags
  Blank = Blank
  BootByte = BootByte
  Old = Old
  Torn = Torn
  WordSize = 1
  HeaderOf <- MCHeaderOf
  SizeLimit = 7
  NoHashSize = 3
  NoHashSum = NoHashSum
  BlankSum = BlankSum
  Contents <- DamagedContents
INVARIANTS
  BootTypeOK
PROPERTIES
  RequestServed
  DfuHasReason
