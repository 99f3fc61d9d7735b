CONSTANTS
  left = left
  right = right
  Listeners = {left, right}
  Generations = {"v1", "v2"}
  NoGen = NoGen
  Generation <- MCGeneration
  ChatGen = "v2"
  Debounce = 1
  AckTimeout = 1
  RetryEvery = 1
  Grace = 2
  MaxAttempts = 2
  MaxWakes = 2
  MaxChat = 1
SPECIFICATION FairSpec
INVARIANTS
  EnabledByOperator
  LockCanBeReleased
PROPERTIES
  OneWakeAtATime
  WaitEnds
