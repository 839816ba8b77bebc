CONSTANTS
  Files <- MCFiles
  ValueOf <- Numerals
  BufferSize = 16
  LongWords = 1
  MaxLines = 3
SPECIFICATION Spec
INVARIANT ReadBack
INVARIANT EachTagOnce
\* The program goes on with the maps.
CHECK_DEADLOCK FALSE
