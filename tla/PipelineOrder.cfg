CONSTANTS
  Producers = {c1, c2}
  Awaiters = {}
  Workers = {0}
  Capacity = 2
  Shapes <- AllShapes
  MaxBatches = 2
  MaxStarts = 2
SYMMETRY ProducerSymmetry
SPECIFICATION Spec
INVARIANTS AppliedInOrder NoLostWakeup
