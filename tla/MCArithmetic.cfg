CONSTANTS
  WordSize = 32
  Mix <- MCMix
  MixIncrement = 23
  DefaultRegionBytes = 4
  Beside = {10, 31, 32, 45, 46, 47, 48, 57, 58, 64, 65, 91, 122, 123, 127, 138, 174, 255}
  Followed = {10, 45, 46, 48, 128, 174}
  NameLengths = {1, 4, 7, 8, 9, 16}
SPECIFICATION ArithmeticSpec
INVARIANTS
  ModularArithmeticExact
  WordTestsExact
CHECK_DEADLOCK FALSE
