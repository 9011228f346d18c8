SPECIFICATION Spec
CONSTANTS
  Chars = {1, 2, 3, 4}
  NoChar = 0
  BufLen = 2
  MaxArrive = 2
  MaxWrite = 4
  Lens = {0, 2}
INVARIANTS
  ReadsInOrder
PROPERTIES
  ImplementsChannel
  EverythingSent
  CharTaken
  CallsReturn
