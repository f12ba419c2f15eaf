CONSTANTS
  NoBody = NoBody
  KeyOf <- MCKeyOf
  Size = 2
  stoi <- MCstoi
  Chars <- MCChars
  Quads <- MCQuads
  ULLMax = 20
  LLMax = 10
  MaxString = 2
  MaxNumber = 5
  Scalars <- MCScalars
  Strings <- MCStrings
  MaxTokens = 10
  IntMax = 1
  Bytes <- MCBytes
  MaxBytes = 4
  Numbers <- MCIntegers
  IntegerMax = 99999
  BufferSize = 16
  KeyOrder <- MCKeyOrder
  k1 = k1
  k2 = k2
  v1 = v1
  v2 = v2
SPECIFICATION Spec
INVARIANTS ReadBack BuiltAsWritten NumberAsWritten StringAsWritten ParsedAsWritten DumpedAsParsed ScalarsReadBack FileAsWritten
CHECK_DEADLOCK FALSE
