SPECIFICATION ServicesSpec
CONSTANTS
  Names <- MCNames
  Lower <- MCLower
  Words <- MCWords
  ToInt <- MCToInt
  IniHash <- MCHash
  MinSize = 2
  TextLines <- MCTextLines
  DictKeys <- MCDictKeys
  DictValues <- MCDictValues
  MaxText = 3
  Datagrams <- MCRequests
  Disks <- MCDisks
  Gateways <- MCGateways
  OtherGateways <- MCOtherGateways
  MaxFds = 8
  Garbage = 99
  MaxRequests = 2
  MaxFaults = 1
  Pieces <- MCPieces
  MaxNumericSize = 2
  SmallBuffer = 4
  LargeBuffer = 5
  MaxBuffers = 2
  RollSize = 3
  CheckEveryN = 2
  FlushInterval = 0
  RollPerSeconds = 2
  MaxLines = 4
  MaxTime = 2
  Databases <- MCDatabases
  ComNames <- MCComNames
  Readings <- MCReadings
  Byte <- MCByte
  MaxEdits = 1
  MaxDbFaults = 1
  MaxLoads = 2
  Users <- MCUsers
  MutexOf <- MCMutexOf
  Asks <- MCAsks
  FreshTermios <- MCFresh
  MaxMishaps = 2
  MaxBursts = 1
  MaxWaits = 2
  Tokens <- MCTokens
  Roots <- MCRoots
  Texts <- MCTexts
  MoreTexts <- MCMoreTexts
  HexChars <- MCHexChars
  DumpRoom = 5
  MaxTokens = 6
  MaxHex = 5
  Half32 = 16
  Half64 = 128
  MaxExp = 12
INVARIANTS RepliesHold AssertionsHold DevicesListed ColumnsRight SwitchAgrees PortKept JsonFaithful HexFaithful
PROPERTIES SettingsRead RewriteKeepsOthers OneGateway KeepsLines LineReachesDisk PortLeft
CHECK_DEADLOCK FALSE
