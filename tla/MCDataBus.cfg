SPECIFICATION ClockedSpec
CONSTANTS
  Depth = 2
  Word = {ram, dev}
  Lane = {0}
  x = x
  y = y
  Byte = {x, y}
  Payload <- OnlyX
  Device = {dev}
  None = None
INVARIANTS BusAccounts ReadsAreCurrent
PROPERTIES RefinesQueue FenceDrains BusProgress
