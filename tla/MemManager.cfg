CONSTANTS
  UnitNum50 = 2
  UnitSize50 = 2
  PoolBufferBase50 = 10
  UnitNum200 = 2
  UnitSize200 = 4
  PoolBufferBase200 = 16
  Header = 1
  Null = Null
  HeapAddress = {26, 32}
  RequestSize = {0, 1, 2, 3, 4, 5}
SPECIFICATION Spec
INVARIANT ReturnedHome
PROPERTY KeepsPromise
