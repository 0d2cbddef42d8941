SPECIFICATION Spec
CONSTANTS
  BUFFER_SIZE = 2
  SEM_VALUE_MAX = 3
  a = a
  upA = upA
  NUL = NUL
  Letters <- MCLetters
  toupper <- MCtoupper
INVARIANT
  Full2CountsLetters
