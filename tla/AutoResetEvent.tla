--------------------------- MODULE AutoResetEvent ---------------------------
(***************************************************************************)
(* What Common::Event promises to the rest of the program: a flag that     *)
(* Set() raises, and that exactly one Wait() consumes when it returns.     *)
(* The threads of the emulator (BlockingLoop, DVDThread, ...) are modelled *)
(* against this specification; Event.tla is the mutex-and-condition-       *)
(* variable code that is shown to implement it.                            *)
(***************************************************************************)

CONSTANTS
  Waiters,        \* threads that call Wait() or WaitFor()
  TimedWaiters    \* those that call WaitFor() and so may give up

VARIABLES
  flag,           \* the event has been set and not consumed yet
  waiting         \* threads inside Wait() or WaitFor()

vars == <<flag, waiting>>

TypeOK ==
  /\ flag \in BOOLEAN
  /\ waiting \in SUBSET Waiters

Init ==
  /\ flag = FALSE
  /\ waiting = {}

Set ==
  /\ flag' = TRUE
  /\ UNCHANGED waiting

Reset ==
  /\ flag' = FALSE
  /\ UNCHANGED waiting

\* A thread that finds the event set consumes it without ever waiting.
TakeAtOnce(t) ==
  /\ t \notin waiting
  /\ flag
  /\ flag' = FALSE
  /\ UNCHANGED waiting

BeginWait(t) ==
  /\ t \notin waiting
  /\ waiting' = waiting \cup {t}
  /\ UNCHANGED flag

Take(t) ==
  /\ t \in waiting
  /\ flag
  /\ flag' = FALSE
  /\ waiting' = waiting \ {t}

\* Only a timed wait returns without the event.
GiveUp(t) ==
  /\ t \in waiting \cap TimedWaiters
  /\ waiting' = waiting \ {t}
  /\ UNCHANGED flag

Next ==
  \/ Set
  \/ Reset
  \/ \E t \in Waiters : TakeAtOnce(t) \/ BeginWait(t) \/ Take(t) \/ GiveUp(t)

SafetySpec == Init /\ [][Next]_vars

\* An event that stays set is consumed as long as somebody waits for it.
Spec == SafetySpec /\ WF_vars(\E t \in Waiters : Take(t))

=============================================================================
