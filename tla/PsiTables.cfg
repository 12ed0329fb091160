SPECIFICATION MCSpec
CONSTANTS
  a = a
  b = b
  Nothing = Nothing
  Stuffing = Stuffing
  Counters = 2
  Sub = {a, b}
  Numbers <- TwoNumbers
  SegmentEnd <- TwoEnds
  Versions = 3
  Carousel <- TwoTables
  Lengths <- TwoLengths
  Mixes <- TwoMixes
  Announced = {a}
  Garbage = {0, 1, 3}
  MaxGeneration = 1
  MaxFaults = 2
  PoolMixes <- PairMixes
  MaxBuffers = 7
  MaxOpens = 3
INVARIANTS WholeTables NothingMissed BuffersOwned
PROPERTY LatestInTheEnd
