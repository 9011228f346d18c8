SPECIFICATION SpecTB
CONSTANTS
  WordBits = 32
  Rounds = 64
  Blocks <- KABlocks
  NoBlock = NoBlock
  Undef = Undef
  MaxBlocks = 1
INVARIANT KnownDigest
PROPERTIES BenchEnds ImplementsService
CHECK_DEADLOCK FALSE
