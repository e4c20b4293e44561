CONSTANTS
  Types = {t1}
  Others = {o1, o2}
  Delays <- PastAndFuture
  OtherDelays = {2}
  MAX_SLICE_LENGTH = 4
  Factors = {50, 200}
  BlockCycles = {3}
  MaxEvents = 2
  MaxTime = 2
  NoThread = NoThread
  NoEvent = NoEvent
  NoState = NoState
SPECIFICATION Spec
SYMMETRY OtherThreads
CHECK_DEADLOCK FALSE
INVARIANTS TypeOK SliceCoversEvents
PROPERTIES RunsInOrder OtherThreadOrder TicksAdvance
