CONSTANTS
  DataStreams = {5, 7, 9}
  Dependencies = {0, 5, 7}
  Exclusive = {FALSE, TRUE}
  MaxMoves = 1
SPECIFICATION SpecTree
PROPERTY OnlyAfterParent
PROPERTY EveryStreamOffered
