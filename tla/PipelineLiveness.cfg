CONSTANTS
  Producers = {c1, c2}
  Awaiters = {c1, c2}
  Workers = {0, 1}
  Capacity = 1
  Shapes <- RoutedShapes
  MaxBatches = 1
  MaxStarts = 1
SPECIFICATION FairSpec
PROPERTIES Acknowledged EverySubmitAnswered StopReturns
INVARIANT StopPersistsHandedOver
