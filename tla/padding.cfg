SPECIFICATION SpecTB
CONSTANTS
  StrBits = 4
  LenBits = 3
  BlockBits = 12
  Strings <- MCStrings
  Lengths <- MCLengths
  Undef = Undef
INVARIANTS PadsTimeZero BenchWaits
CHECK_DEADLOCK FALSE
