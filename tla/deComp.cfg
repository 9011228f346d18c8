SPECIFICATION Spec
CONSTANTS
  WordBits = 32
  Length = 64
  Blocks <- KABlocks
  NoBlock = NoBlock
  Undef = Undef
  MaxBlocks = 2
INVARIANTS FinishedIsSchedule ReadyMeansFinished
PROPERTIES ImplementsService ReadyAgain
CHECK_DEADLOCK FALSE
