\* Every region of up to 130 bytes with blocks of 1 to 8 bytes, in a word of 8 bits.
SPECIFICATION Spec
CONSTANTS
  MinLength = 0
  MaxLength = 130
  MinLog2 = 0
  MaxLog2 = 3
  WordBits = 8
  MaxIndex = 40
INVARIANTS
  BlocksInRegion
  IndicesGoRound
