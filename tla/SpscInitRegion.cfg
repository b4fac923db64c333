\* The two regions of ping_pong_sel4.system: 0x100000 bytes less the 320 of
\* spsc_queue_t, in blocks of 2048.
SPECIFICATION Spec
CONSTANTS
  MinLength = 1048256
  MaxLength = 1048256
  MinLog2 = 11
  MaxLog2 = 11
  WordBits = 21
  MaxIndex = 4
INVARIANTS
  CapacityUsesRegion
