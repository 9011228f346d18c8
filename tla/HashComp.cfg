SPECIFICATION Spec
CONSTANTS
  WordBits = 8
  Rounds = 8
  Blocks <- MCBlocks
  NoBlock = NoBlock
  Undef = Undef
  MaxBlocks = 3
INVARIANTS FreshDigest LaterBlocksOneRound
PROPERTIES OutputHeld ReadyAgain
CHECK_DEADLOCK FALSE
