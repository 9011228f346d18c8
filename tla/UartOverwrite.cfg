SPECIFICATION Spec
CONSTANTS
  Chars = {1, 2, 3, 4}
  NoChar = 0
  BufLen = 4
  MaxArrive = 4
  MaxWrite = 1
  Lens = {1}
PROPERTY NothingOverwritten
