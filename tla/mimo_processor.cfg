CONSTANTS
  NumThreads = 3
  NumLists = 2
  Items = {a, b, c, d}
  MaxLength = 4
SPECIFICATION Spec
INVARIANTS BarrierInv ListsInOrder
PROPERTIES ProcessReturns
