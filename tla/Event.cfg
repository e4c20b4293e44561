\* Two setters, so that a second Set() can find the flag of the first raised;
\* two waiters, one of them timed.
CONSTANTS
  Setters = {s1, s2}
  Waiters = {w1, w2}
  TimedWaiters = {w2}
  NoThread = NoThread
SPECIFICATION Spec
INVARIANTS TypeOK NoLostWakeup
PROPERTY ImplementsAutoResetEvent
