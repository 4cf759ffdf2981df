SPECIFICATION BytesSpec
CONSTANTS
  MaxLen = 6
  SendSizes = {0, 1, 3, 5, 6, 7, 12, 13, 17}
  MaxCapacity = 4
  MaxWrite = 3
  MaxWrites = 9
  Tokens = {"x", "comma", "to:", "content:"}
  MaxTokens = 3
INVARIANTS LoopsAreBounded LosesOnePerSwap DataNeverArrives
CHECK_DEADLOCK FALSE
