CONSTANTS
  Clients = {c1, c2}
  Worker = Worker
  Wakers = {c1, c2}
  Waiters = {c1, c2}
  Preparers = {c1}
  Stoppers = {c2}
  StopModes = {"kNonBlock", "kBlock"}
  Timeout = TRUE
  NoThread = NoThread
SPECIFICATION Spec
INVARIANTS TypeOK WaitMeansDone NoLostWakeup StopMeansQuit
