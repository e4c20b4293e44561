---------------------------- MODULE BlockingLoop ----------------------------
(***************************************************************************)
(* Common::BlockingLoop (Source/Core/Common/BlockingLoop.h): one worker    *)
(* thread runs a payload over and over, client threads trigger it with     *)
(* Wakeup(), wait for it with Wait(), and end it with Stop().  The GPU     *)
(* thread of the emulator is such a worker (VideoCommon/Fifo.cpp), and so  *)
(* is Vulkan's submission thread.                                          *)
(*                                                                         *)
(* The class is lock-free on its hot path, so every access to an atomic    *)
(* variable is a step of its own.  The two Events are the auto-reset       *)
(* events of AutoResetEvent: each has one waiter (the worker, and the      *)
(* owner of m_wait_lock), which is all that Event.tla needs.               *)
(***************************************************************************)
EXTENDS Integers

CONSTANTS
  Clients,        \* threads that use the loop from outside
  Worker,         \* the thread that calls Run()
  Wakers,         \* clients that call Wakeup()
  Waiters,        \* clients that call Wait() or WaitYield()
  Preparers,      \* clients that call Prepare()
  Stoppers,       \* clients that call Stop()
  StopModes,      \* the StopMode arguments they pass
  Timeout,        \* TRUE iff Run() is given a timeout
  NoThread        \* "nobody owns the mutex"

WaitCalls == {"Wait", "WaitYield"}
AllStopModes == {"kNonBlock", "kBlock", "kBlockAndGiveUp"}

ASSUME LoopAssumption ==
  /\ Worker \notin Clients
  /\ NoThread \notin Clients \cup {Worker}
  /\ Wakers \cup Waiters \cup Preparers \cup Stoppers \subseteq Clients
  /\ StopModes \subseteq AllStopModes
  /\ Timeout \in BOOLEAN

\* enum RUNNING_TYPE
STATE_SLEEPING == 0
STATE_DONE == 1
STATE_LAST_EXECUTION == 2
STATE_NEED_EXECUTION == 3

VARIABLES
  m_running_state,
  m_stopped,
  m_shutdown,
  m_may_sleep,
  m_new_work_event,   \* the flag of the event
  m_done_event,       \* the flag of the event
  m_wait_lock,        \* the owner of the mutex, or NoThread
  m_prepare_lock,     \* the owner of the mutex, or NoThread
  pc,                 \* where each thread is in this class
  call,               \* the call each client is in, or made last
  work                \* ghost: what became of each client's last piece of work

flags == <<m_stopped, m_shutdown, m_may_sleep>>
events == <<m_new_work_event, m_done_event>>
locks == <<m_wait_lock, m_prepare_lock>>
data == <<m_running_state, flags, events, locks, call, work>>
vars == <<data, pc>>

Threads == Clients \cup {Worker}

PreparePC == {"prepareLock", "prepareTest", "prepareState", "prepareShutdown",
              "prepareSleep"}
ClientPC == PreparePC \cup
  {"idle", "wakeLoad", "wakeExchange", "wakeSet", "stopTest", "stopShutdown",
   "fastStopped", "fastState", "waitLock", "isStopped", "isDone", "waitDone",
   "giveUp", "allowSleep"}
WorkerPC == PreparePC \cup
  {"out", "loop", "payload", "inPayload", "switch", "decNeed", "decLast",
   "setDone", "testSleep", "decDone", "sleep", "endState", "endStopped",
   "endDone"}

TypeOK ==
  /\ m_running_state \in STATE_SLEEPING..STATE_NEED_EXECUTION
  /\ m_stopped \in BOOLEAN
  /\ m_shutdown \in BOOLEAN
  /\ m_may_sleep \in BOOLEAN
  /\ m_new_work_event \in BOOLEAN
  /\ m_done_event \in BOOLEAN
  /\ m_wait_lock \in Clients \cup {NoThread}
  /\ m_prepare_lock \in Threads \cup {NoThread}
  /\ pc \in [Threads -> ClientPC \cup WorkerPC]
  /\ pc[Worker] \in WorkerPC
  /\ \A c \in Clients : pc[c] \in ClientPC
  /\ call \in [Clients -> {"none", "Wakeup", "Prepare"} \cup WaitCalls \cup AllStopModes]
  /\ work \in [Clients -> {"none", "published", "taken", "done"}]

\* The constructor; the atomics of a static object are zero-initialized.
Init ==
  /\ m_running_state = STATE_SLEEPING
  /\ m_stopped = TRUE
  /\ m_shutdown = FALSE
  /\ m_may_sleep = FALSE
  /\ m_new_work_event = FALSE
  /\ m_done_event = FALSE
  /\ m_wait_lock = NoThread
  /\ m_prepare_lock = NoThread
  /\ pc = [t \in Threads |-> IF t = Worker THEN "out" ELSE "idle"]
  /\ call = [c \in Clients |-> "none"]
  /\ work = [c \in Clients |-> "none"]

Goto(t, from, to) ==
  /\ pc[t] = from
  /\ pc' = [pc EXCEPT ![t] = to]

\* A step that only looks where to go on.
Branch(t, from, to) == Goto(t, from, to) /\ UNCHANGED data

Call(c, name, to) ==
  /\ Goto(c, "idle", to)
  /\ call' = [call EXCEPT ![c] = name]

-----------------------------------------------------------------------------
(* Wakeup(): the client has just made some work available to the payload.   *)
CallWakeup(c) ==
  /\ c \in Wakers
  /\ Call(c, "Wakeup", "wakeLoad")
  /\ work' = [work EXCEPT ![c] = "published"]
  /\ UNCHANGED <<m_running_state, flags, events, locks>>

\* Stop() goes on after its Wakeup(), unless it is not to block.
AfterWakeup(c) ==
  IF call[c] \in {"kBlock", "kBlockAndGiveUp"} THEN "fastStopped" ELSE "idle"

\* Variant: "already running" is read as "about to run the last time".
WakeLoad_TooEarly(c) ==
  Branch(c, "wakeLoad", IF m_running_state >= STATE_LAST_EXECUTION
                        THEN AfterWakeup(c) ELSE "wakeExchange")

WakeLoad(c) ==
  Branch(c, "wakeLoad", IF m_running_state >= STATE_NEED_EXECUTION
                        THEN AfterWakeup(c) ELSE "wakeExchange")

\* Variant: the event is thought needless for a loop in STATE_SLEEPING.
WakeExchange_NoEvent(c) ==
  /\ Goto(c, "wakeExchange", AfterWakeup(c))
  /\ m_running_state' = STATE_NEED_EXECUTION
  /\ UNCHANGED <<flags, events, locks, call, work>>

WakeExchange(c) ==
  /\ Goto(c, "wakeExchange", IF m_running_state # STATE_SLEEPING
                             THEN AfterWakeup(c) ELSE "wakeSet")
  /\ m_running_state' = STATE_NEED_EXECUTION
  /\ UNCHANGED <<flags, events, locks, call, work>>

WakeSet(c) ==
  /\ Goto(c, "wakeSet", AfterWakeup(c))
  /\ m_new_work_event' = TRUE
  /\ UNCHANGED <<m_running_state, flags, m_done_event, locks, call, work>>

-----------------------------------------------------------------------------
(* Wait() and WaitYield().  IsDone() loads m_stopped and m_running_state    *)
(* one after the other.                                                     *)
CallWait(c) ==
  /\ c \in Waiters
  /\ \E name \in WaitCalls : Call(c, name, "fastStopped")
  /\ UNCHANGED <<m_running_state, flags, events, locks, work>>

FastStopped(c) ==
  Branch(c, "fastStopped", IF m_stopped THEN "idle" ELSE "fastState")

FastState(c) ==
  Branch(c, "fastState", IF m_running_state <= STATE_DONE THEN "idle" ELSE "waitLock")

WaitLock(c) ==
  /\ Goto(c, "waitLock", "isStopped")
  /\ m_wait_lock = NoThread
  /\ m_wait_lock' = c
  /\ UNCHANGED <<m_running_state, flags, events, m_prepare_lock, call, work>>

IsStopped(c) ==
  Branch(c, "isStopped", IF m_stopped THEN "allowSleep" ELSE "isDone")

IsDone(c) ==
  Branch(c, "isDone", IF m_running_state <= STATE_DONE THEN "allowSleep" ELSE "waitDone")

WaitDone(c) ==
  /\ Goto(c, "waitDone", "isStopped")
  /\ m_done_event
  /\ m_done_event' = FALSE
  /\ UNCHANGED <<m_running_state, flags, m_new_work_event, locks, call, work>>

\* WaitYield(): m_done_event.WaitFor() timed out, so yield_func() runs; the
\* one that Stop(kBlockAndGiveUp) passes declares the loop stopped.
WaitExpired(c) ==
  /\ call[c] \in {"WaitYield", "kBlockAndGiveUp"}
  /\ Branch(c, "waitDone", IF call[c] = "kBlockAndGiveUp" THEN "giveUp" ELSE "isStopped")

GiveUp(c) ==
  /\ Goto(c, "giveUp", "isStopped")
  /\ m_stopped' = TRUE
  /\ UNCHANGED <<m_running_state, m_shutdown, m_may_sleep, events, locks, call, work>>

\* m_may_sleep.Set(), and the lock_guard goes out of scope.
AllowSleepAndReturn(c) ==
  /\ Goto(c, "allowSleep", "idle")
  /\ m_may_sleep' = TRUE
  /\ m_wait_lock' = NoThread
  /\ UNCHANGED <<m_running_state, m_stopped, m_shutdown, events, m_prepare_lock, call, work>>

\* AllowSleep(), which any client may call at any time.
AllowSleep(c) ==
  /\ pc[c] = "idle"
  /\ m_may_sleep' = TRUE
  /\ UNCHANGED <<m_running_state, m_stopped, m_shutdown, events, locks, pc, call, work>>

-----------------------------------------------------------------------------
(* Stop()                                                                   *)
CallStop(c) ==
  /\ c \in Stoppers
  /\ \E mode \in StopModes : Call(c, mode, "stopTest")
  /\ UNCHANGED <<m_running_state, flags, events, locks, work>>

StopTest(c) ==
  Branch(c, "stopTest", IF m_stopped THEN "idle" ELSE "stopShutdown")

\* Variant: the worker is expected to notice by itself.
StopShutdown_NoWakeup(c) ==
  /\ Goto(c, "stopShutdown", AfterWakeup(c))
  /\ m_shutdown' = TRUE
  /\ UNCHANGED <<m_running_state, m_stopped, m_may_sleep, events, locks, call, work>>

\* The Wakeup() that follows interrupts a sleeping worker.
StopShutdown(c) ==
  /\ Goto(c, "stopShutdown", "wakeLoad")
  /\ m_shutdown' = TRUE
  /\ UNCHANGED <<m_running_state, m_stopped, m_may_sleep, events, locks, call, work>>

-----------------------------------------------------------------------------
(* Prepare(), called by clients and by Run().                               *)
CallPrepare(c) ==
  /\ c \in Preparers
  /\ Call(c, "Prepare", "prepareLock")
  /\ UNCHANGED <<m_running_state, flags, events, locks, work>>

AfterPrepare(t) == IF t = Worker THEN "loop" ELSE "idle"

PrepareLock(t) ==
  /\ Goto(t, "prepareLock", "prepareTest")
  /\ m_prepare_lock = NoThread
  /\ m_prepare_lock' = t
  /\ UNCHANGED <<m_running_state, flags, events, m_wait_lock, call, work>>

\* m_stopped.TestAndClear(): only the first caller prepares the loop.
PrepareTest(t) ==
  /\ Goto(t, "prepareTest", IF m_stopped THEN "prepareState" ELSE AfterPrepare(t))
  /\ m_stopped' = FALSE
  /\ m_prepare_lock' = IF m_stopped THEN t ELSE NoThread
  /\ UNCHANGED <<m_running_state, m_shutdown, m_may_sleep, events, m_wait_lock, call, work>>

PrepareState(t) ==
  /\ Goto(t, "prepareState", "prepareShutdown")
  /\ m_running_state' = STATE_LAST_EXECUTION
  /\ UNCHANGED <<flags, events, locks, call, work>>

PrepareShutdown(t) ==
  /\ Goto(t, "prepareShutdown", "prepareSleep")
  /\ m_shutdown' = FALSE
  /\ UNCHANGED <<m_running_state, m_stopped, m_may_sleep, events, locks, call, work>>

PrepareSleep(t) ==
  /\ Goto(t, "prepareSleep", AfterPrepare(t))
  /\ m_may_sleep' = TRUE
  /\ m_prepare_lock' = NoThread
  /\ UNCHANGED <<m_running_state, m_stopped, m_shutdown, events, m_wait_lock, call, work>>

-----------------------------------------------------------------------------
(* Run()                                                                    *)
CallRun ==
  Branch(Worker, "out", "prepareLock")

\* Variant: the last run does not tell the waiters.
DecLast_Silent ==
  /\ Goto(Worker, "decLast", IF m_running_state = STATE_LAST_EXECUTION
                             THEN "testSleep" ELSE "loop")
  /\ m_running_state' = m_running_state - 1
  /\ UNCHANGED <<flags, events, locks, call, work>>

\* Variant: going to sleep overwrites a Wakeup() that came in between.
DecDone_Overwrite ==
  /\ Goto(Worker, "decDone", "sleep")
  /\ m_running_state' = STATE_SLEEPING
  /\ UNCHANGED <<flags, events, locks, call, work>>

LoopTest ==
  Branch(Worker, "loop", IF m_shutdown THEN "endState" ELSE "payload")

\* The payload takes on whatever is published by the time it starts ...
PayloadBegin ==
  /\ Goto(Worker, "payload", "inPayload")
  /\ work' = [c \in Clients |-> IF work[c] = "published" THEN "taken" ELSE work[c]]
  /\ UNCHANGED <<m_running_state, flags, events, locks, call>>

\* ... and is done with it when it returns.
PayloadEnd ==
  /\ Goto(Worker, "inPayload", "switch")
  /\ work' = [c \in Clients |-> IF work[c] = "taken" THEN "done" ELSE work[c]]
  /\ UNCHANGED <<m_running_state, flags, events, locks, call>>

\* Variant: a loop that was woken up asleep is taken for one that is done.
Switch_Awake ==
  Branch(Worker, "switch",
         CASE m_running_state = STATE_NEED_EXECUTION -> "decNeed"
           [] m_running_state = STATE_LAST_EXECUTION -> "decLast"
           [] m_running_state <= STATE_DONE -> "testSleep")

Switch ==
  Branch(Worker, "switch",
         CASE m_running_state = STATE_NEED_EXECUTION -> "decNeed"
           [] m_running_state = STATE_LAST_EXECUTION -> "decLast"
           [] m_running_state = STATE_DONE -> "testSleep"
           [] m_running_state = STATE_SLEEPING -> "sleep")

\* m_running_state--, whose old value decides unless Wakeup() came first.
Decrement(from, expected, then, else) ==
  /\ Goto(Worker, from, IF m_running_state = expected THEN then ELSE else)
  /\ m_running_state' = m_running_state - 1
  /\ UNCHANGED <<flags, events, locks, call, work>>

DecNeed == Decrement("decNeed", STATE_NEED_EXECUTION, "loop", "loop")
DecLast == Decrement("decLast", STATE_LAST_EXECUTION, "setDone", "loop")
DecDone == Decrement("decDone", STATE_DONE, "sleep", "loop")

SetDone ==
  /\ Goto(Worker, "setDone", "testSleep")
  /\ m_done_event' = TRUE
  /\ UNCHANGED <<m_running_state, flags, m_new_work_event, locks, call, work>>

\* m_may_sleep.TestAndClear(): without permission to sleep, a busy loop.
TestSleep ==
  /\ Goto(Worker, "testSleep", IF m_may_sleep THEN "decDone" ELSE "loop")
  /\ m_may_sleep' = FALSE
  /\ UNCHANGED <<m_running_state, m_stopped, m_shutdown, events, locks, call, work>>

WakeUpWorker ==
  /\ Goto(Worker, "sleep", "loop")
  /\ m_new_work_event
  /\ m_new_work_event' = FALSE
  /\ UNCHANGED <<m_running_state, flags, m_done_event, locks, call, work>>

SleepExpired ==
  /\ Timeout
  /\ Branch(Worker, "sleep", "loop")

EndState ==
  /\ Goto(Worker, "endState", "endStopped")
  /\ m_running_state' = STATE_DONE
  /\ UNCHANGED <<flags, events, locks, call, work>>

EndStopped ==
  /\ Goto(Worker, "endStopped", "endDone")
  /\ m_stopped' = TRUE
  /\ UNCHANGED <<m_running_state, m_shutdown, m_may_sleep, events, locks, call, work>>

EndDone ==
  /\ Goto(Worker, "endDone", "out")
  /\ m_done_event' = TRUE
  /\ UNCHANGED <<m_running_state, flags, m_new_work_event, locks, call, work>>

-----------------------------------------------------------------------------
Prepare(t) ==
  \/ PrepareLock(t) \/ PrepareTest(t) \/ PrepareState(t)
  \/ PrepareShutdown(t) \/ PrepareSleep(t)

\* The steps inside a call, which its caller goes on to take.
ClientStep(c) ==
  \/ WakeLoad(c) \/ WakeExchange(c) \/ WakeSet(c)
  \/ FastStopped(c) \/ FastState(c) \/ WaitLock(c)
  \/ IsStopped(c) \/ IsDone(c) \/ WaitDone(c) \/ WaitExpired(c) \/ GiveUp(c)
  \/ AllowSleepAndReturn(c)
  \/ StopTest(c) \/ StopShutdown(c)
  \/ Prepare(c)

ClientCall(c) ==
  CallWakeup(c) \/ CallWait(c) \/ CallStop(c) \/ CallPrepare(c) \/ AllowSleep(c)

WorkerStep ==
  \/ Prepare(Worker)
  \/ LoopTest \/ PayloadBegin \/ PayloadEnd \/ Switch
  \/ DecNeed \/ DecLast \/ DecDone \/ SetDone \/ TestSleep
  \/ WakeUpWorker \/ SleepExpired
  \/ EndState \/ EndStopped \/ EndDone

Next ==
  \/ \E c \in Clients : ClientCall(c) \/ ClientStep(c)
  \/ CallRun
  \/ WorkerStep

SafetySpec == Init /\ [][Next]_vars

\* Threads inside a call keep going and the payload returns; nobody has to
\* call anything, Run() included.
Fairness ==
  /\ WF_vars(WorkerStep)
  /\ \A c \in Clients : WF_vars(ClientStep(c))

Spec == SafetySpec /\ Fairness

-----------------------------------------------------------------------------
Pending(c) == work[c] \in {"published", "taken"}
InWakeup(c) == pc[c] \in {"wakeLoad", "wakeExchange", "wakeSet"}
InWait(c) == pc[c] \in {"fastStopped", "fastState", "waitLock", "isStopped", "isDone",
                        "waitDone", "giveUp", "allowSleep"}
InLoop == pc[Worker] \in WorkerPC \ (PreparePC \cup {"out", "endState", "endStopped", "endDone"})

\* The client is about to be told by IsDone() that it need not wait.
FindsDone(c) == pc[c] \in {"fastState", "isDone"} /\ m_running_state <= STATE_DONE
FindsStopped(c) == pc[c] \in {"fastStopped", "isStopped"} /\ m_stopped

(* What Wait() promises: "Wait for a complete payload run after the last    *)
(* Wakeup() call".  When a client is about to find the loop done, while it  *)
(* is not being shut down, every piece of work whose Wakeup() call is over  *)
(* has been through a payload run that began after it was published.        *)
WaitMeansDone ==
  \A c \in Clients : FindsDone(c) /\ ~ m_shutdown =>
    \A d \in Clients : Pending(d) => InWakeup(d)

(* The worker never sleeps on work it was woken up for: while it waits for  *)
(* an event that nobody is about to set, no work is pending.                *)
NoLostWakeup ==
  /\ pc[Worker] = "sleep"
  /\ ~ m_new_work_event
  /\ ~ m_shutdown
  => \A c \in Clients : Pending(c) => InWakeup(c) \/ \E d \in Clients : pc[d] = "wakeSet"

(* A blocking Stop() that returns while its request still stands leaves the *)
(* worker outside the loop: it will not call the payload again.             *)
StopMeansQuit ==
  \A c \in Clients :
    call[c] = "kBlock" /\ m_shutdown /\ (FindsDone(c) \/ FindsStopped(c)) => ~ InLoop

-----------------------------------------------------------------------------
(* Somebody calls Run() when it can be called, which Spec leaves open;      *)
(* clients do not prepare and stop the loop for ever; and nobody takes a    *)
(* slow worker for an absent one.                                           *)
RunIsCalled ==
  /\ WF_vars(CallRun)
  /\ <>[][\A c \in Clients : ~ CallPrepare(c) /\ ~ CallStop(c)]_vars
  /\ [](\A c \in Clients : pc[c] # "giveUp")

(* "Triggers to rerun the payload of the Run() function at least once       *)
(* again": the payload gets to see what was published before a Wakeup(),    *)
(* unless the loop is shut down instead.                                    *)
WorkIsTaken ==
  RunIsCalled =>
    \A c \in Clients : work[c] = "published" ~> work[c] # "published" \/ m_shutdown

\* "Wait() may block forever while Wakeup() is called regularly."
WakeupsCease == <>[][\A c \in Clients : ~ CallWakeup(c)]_vars

(* Wait() and WaitYield() return, if the wakeups cease.                     *)
WaitReturns ==
  RunIsCalled /\ WakeupsCease => \A c \in Clients : InWait(c) ~> ~ InWait(c)

=============================================================================
