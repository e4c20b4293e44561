CONSTANTS
  Clients = {c1, c2}
  Worker = Worker
  Wakers = {c1}
  Waiters = {c1, c2}
  Preparers = {}
  Stoppers = {c2}
  StopModes = {"kBlockAndGiveUp"}
  Timeout = FALSE
  NoThread = NoThread
SPECIFICATION Spec
PROPERTIES WorkIsTaken WaitReturns
