SPECIFICATION Spec
CONSTANTS
  WordBits = 32
  Natives = {32, 64}
  Messages <- KAMessages
INVARIANTS HashesMessage PrintsDigits
CHECK_DEADLOCK FALSE
