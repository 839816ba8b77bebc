SPECIFICATION Spec
CONSTANTS
  Parts <- MCParts
  Numbers = {"8080", "80", "443"}
  MaxLength = 3
  Byte <- MCByte
INVARIANTS
  
  
  CredentialsArrive
\* A call ends.
CHECK_DEADLOCK FALSE
