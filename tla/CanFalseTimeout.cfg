CONSTANTS
  FifoSize = 1
  RingSize = 1
  QueueSize = 2
  RxBudget = 1
  Timeout = 1
  BlockMax = 1
SPECIFICATION CanSpec
INVARIANTS
  TimeoutMeansSilence
