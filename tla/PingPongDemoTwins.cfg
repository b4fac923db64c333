\* Two boards of one kind take each other's pings for their own.
SPECIFICATION Spec
CONSTANTS
  Devices = {d1, d2}
  MaxPings = 2
  MaxLate = 2
  Boards = {b1}
PROPERTIES
  PongsOthers
CHECK_DEADLOCK FALSE
