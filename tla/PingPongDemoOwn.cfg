\* A ping comes back to its device after the next one has been sent.
SPECIFICATION Spec
CONSTANTS
  Devices = {d1, d2}
  MaxPings = 2
  MaxLate = 2
  Boards = {b1, b2}
PROPERTIES
  NeverPongsOwn
CHECK_DEADLOCK FALSE
