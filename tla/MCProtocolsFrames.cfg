SPECIFICATION ProtocolsSpec
CONSTANTS
  Nums = {1, 4, 6}
  Garbled = {0, 2, 99}
  MaxMessage = 12
  LineFaults = {"open", "write", "read", "lost", "damaged", "exception", "other", "slow"}
  MaxExchanges = 2
  MaxRead = 5
  MaxAdu = 11
  RouterHeader = 5
  HeaderWord = 2
  MaxWrite = 4
  Preambles = {0, 1, 2}
  MaxPreamble = 2
  MaxAduOf <- MCMaxAduOf
  MaxMessageOf <- MCMaxMessageOf
INVARIANTS DriversSafe SoundAnswersConfirmed
PROPERTIES ImplementsExchange
CHECK_DEADLOCK FALSE
