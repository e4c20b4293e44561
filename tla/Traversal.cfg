CONSTANTS
  Hosts = {h}
  Joiners = {j}
  Server = Server
  None = None
  ServerTries = 1
  ClientTries = 1
  HostIds = {x, y}
  MaxSends = 2
  MaxIntake = 3
  MaxForgets = 1
SPECIFICATION Spec
SYMMETRY Codes
VIEW View
CHECK_DEADLOCK FALSE
INVARIANTS TypeOK ReadyMeansPunched KnownOrForgotten AnswerPending
