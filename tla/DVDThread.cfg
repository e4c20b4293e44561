CONSTANTS
  Discs = {d1}
  NoDisc = NoDisc
  NoRequest = NoRequest
  NoState = NoState
  MaxReads = 3
SPECIFICATION Spec
INVARIANTS TypeOK RightUnlessLeftover EachReadOnce IdleUnlessRaced
PROPERTY CallsReturn
CONSTRAINT NotRaced
