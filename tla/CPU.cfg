CONSTANTS
  Hosts = {h1, h2}
  CpuThread = CpuThread
  Steppers = {h1, h2}
  NoHost = NoHost
SPECIFICATION Spec
INVARIANTS TypeOK ExclusiveAccess NoEventLost BreakHolds AdjacentsRun
PROPERTIES WaitsEnd RunningRuns CpuStops
