SPECIFICATION PacedSpec
CONSTANTS
  NumWays = 1
  NumSets = 2
  NumWords = 2
  Tag = {0, 1}
  rom = rom
  Uncached = {rom}
  None = None
  Version = {0, 1}
  Code <- ConflictCode
  Written <- WordAndUncached
INVARIANT FetchSound
PROPERTY FetchEnds
