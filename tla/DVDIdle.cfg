CONSTANTS
  Discs = {d1}
  NoDisc = NoDisc
  NoRequest = NoRequest
  NoState = NoState
  MaxReads = 2
SPECIFICATION SafetySpec
INVARIANT IdleMeansIdle
