SPECIFICATION MCSpec
CONSTANTS
  Limit = 2
  Wrap = 6
  DegradedMax = 2
  Others = {"direct", "angle", "calib", "offset", "vtest"}
  LogSize = 3
  SeqWrap = 8
  BOOT_MAX_ATTEMPTS = 3
  MaxFailures = 1
  LogCuts = FALSE
  ParamKeys = {"motor", "encoder", "motion"}
  ParamValues = {"v1", "v2"}
  SlotCount = 2
  MaxMishaps = 1
  FifoSize = 1
  RingSize = 1
  QueueSize = 3
  RxBudget = 1
  Timeout = 1
  BlockMax = 1
  MaxEdges = 3
  Backlog = 2
  FailLimit = 2
  MaxAge = 1
  MaxRetries = 2
  RingCells = 6
  ReadMax = 2
  ReadRetries = 1
  HostPatience = 2
  MaxRequests = 4
  MaxResets = 1
INVARIANTS
  DevicesTypeOK
  MotionSeesRotor
  NeverBricked
  BadImageGivesWay
  PowerCutLosesLastOnly
  CommandsFresh
  AddressedSilenceRaises
  ReadWhole
  PairCoherent
  JobBracketsMatch
  UnansweredMeansLost
  ExecutedOnce
PROPERTIES
  LeaseKept
  FramesInOrder
  KeysKept
  JobLeavesSilence
CHECK_DEADLOCK FALSE
