CONSTANTS
  Files <- MCFiles
  ValueOf <- Numerals
  BufferSize = 16
  LongWords = 2
  MaxLines = 1
SPECIFICATION Spec
INVARIANT NamesAreKept
\* The program goes on with the maps.
CHECK_DEADLOCK FALSE
