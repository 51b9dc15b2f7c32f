SPECIFICATION FairSpec
CONSTANTS
  Nums = {1, 3, 4}
  Garbled = {0, 2, 99}
  Cuts = {1, 11, 14, 16}
  MaxRead = 3
  MaxAdu = 13
  MaxMessage = 15
  LineFaults = {"open", "write", "read", "lost", "damaged", "exception", "other", "slow", "late"}
  MaxExchanges = 2
INVARIANTS BufferRespected ConfirmedIsAnswer SoundAnswerConfirmed
PROPERTIES ExchangeEnds
CHECK_DEADLOCK FALSE
